---- MODULE Spec2Model ----
(***************************************************************************)
(* A model of the key-value database for Arduino: the class               *)
(* persistentKeyValuePairs<keyType, valueType> in its two revisions that   *)
(* the repository holds,                                                   *)
(*    "2024": src/unnamed/part_004 (March 12, 2024), lines 211-1506,       *)
(*    "2023": src/persistentKeyValuePairs.h (October 10, 2023).            *)
(* The data file is a sequence of bytes; every operation is translated     *)
(* from its code, including its roll-back paths. The file system, malloc   *)
(* and the two containers (keyValuePairs, vector) are the environment:     *)
(* their failures are drawn from a fault plan f.                           *)
(***************************************************************************)
EXTENDS Integers, Sequences, FiniteSets, Bags, TLC

VARIABLES
    scope,               \* what the callers and the environment do in this specification
    revision,            \* which header is compiled: "2023" or "2024"
    keyIsString,         \* std::is_same<keyType, String>::value
    valueIsString,       \* std::is_same<valueType, String>::value
    disk,                \* the bytes of the data file on the file system
    fileExists,          \* fileSystem.isFile (dataFileName)
    __dataFileName__,    \* the file name the instance holds ("" before loadData)
    __dataFile__,        \* TRUE iff the File handle is open
    __dataFileSize__,    \* the recorded file size
    kvp,                 \* keyValuePairs<keyType, uint32_t>: key -> blockOffset
    __freeBlocksList__,  \* vector<freeBlockType>: sequence of [blockOffset, blockSize]
    __inIteration__,     \* number of live iterators
    __errorFlags__,      \* 2024: the sticky error flags (a set of error names)
    lastErrorCode,       \* 2023: the last error code
    semOwner,            \* __semaphore__: the task holding the recursive mutex
    semCount,            \* __semaphore__: how many times its owner took it
    iter,                \* per task: the iterators it holds (a sequence of cursors)
    pc,                  \* per task: where it is in a multi-step call
    local,               \* per task: locals of the multi-step call
    last,                \* history: the last call that returned
    allOk,               \* history: every modifying call so far returned OK
    atClose,             \* history: what the instance held when it was destroyed
    amap,                \* history: key -> value written by the successful calls
    faults,              \* number of calls so far in which the environment failed
    errs,                \* number of calls so far that returned an error
    incs,                \* history: number of callback increments that returned OK
    fatal                \* history: a failed roll-back closed the file, no loadData since

vars == <<scope, revision, keyIsString, valueIsString, disk, fileExists, __dataFileName__,
          __dataFile__, __dataFileSize__, kvp, __freeBlocksList__, __inIteration__,
          __errorFlags__, lastErrorCode, semOwner, semCount, iter, pc, local, last,
          allOk, atClose, amap, faults, errs, incs, fatal>>

----------------------------------------------------------------------------
\* Bounds of the model
MaxKey == 2
MaxValueLength == 2
LimitValueLength == 27301
MaxFileSize == 18
MaxFileSizeReopen == 24
MaxFileSizeIter == 16
MaxFileSizeErrors == 16
MaxFileSizeFlags == 7
MaxFileSizeFaults == 15
MaxFileSizeFatal == 8
MaxFileSizeRelocate == 18
MaxSmallBlocks == 8
MaxErrors == 1
MaxErrorsFlags == 2
MaxErrorsFatal == 2
MaxErrorsSession == 0
MaxFaults == 1
MaxIncrements == 2
MaxInitialValue == 1
MaxIterators == 1
MaxLiveIterators == 2
MaxCallerLocks == 1
MaxCalls == 1
MaxScanFileSize == 5

\* Program constants
SizeofInt16 == 2
SizeofFixed == 4
SizeofSizeT == 4
PctFreePerMille == 200
MaxBlockSize == 32768

Tasks == {"t1", "t2"}
NoTask == "none"

Min(S) == CHOOSE x \in S : \A y \in S : x <= y

----------------------------------------------------------------------------
\* Fixed-width integers and their bytes (the ESP32 is little-endian)

U16(x) == x % 65536
I16(x) == IF U16(x) >= 32768 THEN U16(x) - 65536 ELSE U16(x)
\* A 32-bit number (size_t, uint32_t, int) is held as the integer that its 32
\* bits are in two's complement, so that 2^32 - 8 and (int16_t) -8 converted to
\* size_t are both -8; ULt is < of two such numbers read as unsigned ones
ULt(a, b) == IF (a < 0) = (b < 0) THEN a < b ELSE b < 0
SizeT(x) == x

LE2(x) == <<U16(x) % 256, U16(x) \div 256>>
LE4(x) == <<x % 256, (x \div 256) % 256, (x \div 65536) % 256, (x \div 16777216) % 256>>

\* the n bytes of file d at offset off (0-based); d must hold them
Bytes(d, off, n) == SubSeq(d, off + 1, off + n)
FromLE(b) == IF Len(b) = 2 THEN b[1] + 256 * b[2]
             ELSE b[1] + 256 * b[2] + 65536 * b[3]
                  + 16777216 * (IF b[4] >= 128 THEN b[4] - 256 ELSE b[4])

----------------------------------------------------------------------------
\* The file system (environment): File::write of the first m bytes of buf at
\* position off; a position past the end of the file leaves a gap whose bytes
\* the file system chooses (gap).
FileWrite(d, off, buf, m, gap) ==
    LET padded == IF off > Len(d) THEN d \o [i \in 1..(off - Len(d)) |-> gap] ELSE d
        w      == SubSeq(buf, 1, m)
    IN  SubSeq(padded, 1, off) \o w \o SubSeq(padded, off + m + 1, Len(padded))

\* the number of bytes a write of n bytes stores under fault plan value w
\* (w = -1: all of them)
Written(n, w) == IF w < 0 \/ w >= n THEN n ELSE w

----------------------------------------------------------------------------
\* Block codec: sizes (Insert step 1, Update step 3) and the block image

KeyBytes(key) == IF keyIsString THEN key \o <<0>> ELSE LE4(key)
ValueBytes(value) == IF valueIsString THEN value \o <<0>> ELSE LE4(value)

\* n + n * 0.2 + 0.5 added to a size_t: the fraction is cut off
WithPctFree(n) == n + (n * PctFreePerMille + 500) \div 1000

DataSize(key, value) == SizeofInt16 + Len(KeyBytes(key)) + Len(ValueBytes(value))

BlockSize(key, value) ==
    SizeofInt16
    + (IF keyIsString THEN WithPctFree(Len(key) + 1) ELSE SizeofFixed)
    + (IF valueIsString THEN WithPctFree(Len(value) + 1) ELSE SizeofFixed)

\* the malloc'ed buffer of blockSize bytes: tag, key, value, then what malloc
\* left there (junk)
BlockImage(blockSize, key, value, junk) ==
    LET data == LE2(blockSize) \o KeyBytes(key) \o ValueBytes(value)
    IN  IF blockSize <= Len(data) THEN data
        ELSE data \o [i \in 1..(blockSize - Len(data)) |-> junk]

\* malloc: a request of 2^31 bytes or more cannot be served on the 32-bit target
MallocOk(n, f) == f.malloc /\ n >= 0

\* reads bytes from offset pos until a 0 byte or the end of the file
RECURSIVE NulFrom(_, _)
NulFrom(d, i) == IF i > Len(d) THEN 0 ELSE IF d[i] = 0 THEN i ELSE NulFrom(d, i + 1)
ReadString(d, pos) ==
    LET stop == NulFrom(d, pos + 1)
    IN  IF stop = 0 THEN [str |-> SubSeq(d, pos + 1, Len(d)), next |-> Len(d)]
        ELSE [str |-> SubSeq(d, pos + 1, stop - 1), next |-> stop]

\* __readBlock__: [e, blockSize, key, value]; value is appended to prior
\* (concat), which fails at the first character when f.concat is FALSE
ReadValue(d, pos, prior, f) ==
    IF valueIsString
    THEN IF ~f.concat /\ ReadString(d, pos).str # <<>>
         THEN [e |-> "BAD_ALLOC", value |-> prior]
         ELSE [e |-> "OK", value |-> prior \o ReadString(d, pos).str]
    ELSE IF pos + SizeofFixed > Len(d)
         THEN [e |-> "FILE_IO_ERROR", value |-> prior]
         ELSE [e |-> "OK", value |-> FromLE(Bytes(d, pos, SizeofFixed))]

NoKey == IF keyIsString THEN <<>> ELSE 0

__readBlock__(d, blockOffset, skipReadingValue, prior, f) ==
    IF ~f.read \/ blockOffset + SizeofInt16 > Len(d)
    THEN [e |-> "FILE_IO_ERROR", blockSize |-> 0, key |-> NoKey, value |-> prior]
    ELSE LET blockSize == I16(FromLE(Bytes(d, blockOffset, SizeofInt16)))
             pos       == blockOffset + SizeofInt16
         IN  IF blockSize < 0
             THEN [e |-> "OK", blockSize |-> blockSize, key |-> NoKey, value |-> prior]
             ELSE IF keyIsString
             THEN LET k == ReadString(d, pos)
                      v == IF skipReadingValue THEN [e |-> "OK", value |-> prior]
                           ELSE ReadValue(d, k.next, prior, f)
                  IN  IF ~f.concat /\ k.str # <<>>
                      THEN [e |-> "BAD_ALLOC", blockSize |-> blockSize, key |-> NoKey,
                            value |-> prior]
                      ELSE [e |-> v.e, blockSize |-> blockSize, key |-> k.str,
                            value |-> v.value]
             ELSE IF pos + SizeofFixed > Len(d)
             THEN [e |-> "FILE_IO_ERROR", blockSize |-> blockSize, key |-> NoKey,
                   value |-> prior]
             ELSE LET v == IF skipReadingValue THEN [e |-> "OK", value |-> prior]
                           ELSE ReadValue(d, pos + SizeofFixed, prior, f)
                  IN  [e |-> v.e, blockSize |-> blockSize,
                       key |-> FromLE(Bytes(d, pos, SizeofFixed)), value |-> v.value]

----------------------------------------------------------------------------
\* Best-fit search of __freeBlocksList__ (Insert step 2, Update step 6).
\* The int16_t blockSize is converted to size_t for the comparison with dataSize.
\* Returns the (1-based) index of the block chosen, 0 for none (-1 in the code).
RECURSIVE bestFit(_, _, _, _, _)
bestFit(list, dataSize, i, freeBlockIndex, minWaste) ==
    IF i > Len(list) THEN freeBlockIndex
    ELSE IF ~ULt(SizeT(list[i].blockSize), dataSize)
            /\ ULt(SizeT(list[i].blockSize) - dataSize, minWaste)
         THEN bestFit(list, dataSize, i + 1, i, SizeT(list[i].blockSize) - dataSize)
         ELSE bestFit(list, dataSize, i + 1, freeBlockIndex, minWaste)

FindFreeBlock(list, dataSize) == bestFit(list, dataSize, 1, 0, -1)

\* vector::erase (index)
VectorErase(list, i) == SubSeq(list, 1, i - 1) \o SubSeq(list, i + 1, Len(list))

\* keyValuePairs::insert: NOT_UNIQUE for a key it holds, BAD_ALLOC without memory
MapInsert(map, key, blockOffset, f) ==
    IF key \in DOMAIN map THEN [e |-> "NOT_UNIQUE", map |-> map]
    ELSE IF ~f.mapInsert THEN [e |-> "BAD_ALLOC", map |-> map]
    ELSE [e |-> "OK", map |-> (key :> blockOffset) @@ map]

\* keyValuePairs::erase
MapErase(map, key) == [k \in DOMAIN map \ {key} |-> map[k]]

----------------------------------------------------------------------------
\* The instance as a record, and what a call returns

Ret(s, ret) == [s |-> s, ret |-> ret, out |-> <<>>]
RetOut(s, ret, out) == [s |-> s, ret |-> ret, out |-> <<out>>]

\* 2024: __errorFlags__ |= e
Flag(s, e) == [s EXCEPT !.flags = @ \cup {e}]
\* 2023: lastErrorCode = e
Last(s, e) == [s EXCEPT !.lastErr = e]
\* __dataFile__.close ()
CloseFile(s) == [s EXCEPT !.open = FALSE]

----------------------------------------------------------------------------
\* Insert, roll-back after a failed write of the block (2024: step 9,
\* 2023: step 7): blockSize = (int16_t) -blockSize is stored in the size_t and
\* all sizeof (blockSize) bytes of it are written over the start of the block.
InsertRollBack(s, d1, key, blockOffset, blockSize, f) ==
    LET negated == SizeT(I16(0 - blockSize))
        m       == Written(SizeofSizeT, f.rbWrite)
        d2      == IF f.rbSeek THEN FileWrite(d1, blockOffset, LE4(negated), m, f.junk)
                   ELSE d1
        closed  == ~f.rbSeek \/ m # SizeofSizeT
        s2      == [s EXCEPT !.disk = d2, !.kvp = MapErase(s.kvp, key),
                             !.open = IF closed THEN FALSE ELSE @]
    IN  IF revision = "2024" THEN Ret(Flag(s2, "FILE_IO_ERROR"), "FILE_IO_ERROR")
        ELSE Ret(Last(s2, "FILE_IO_ERROR"), "FILE_IO_ERROR")

\* a faulty variant of InsertRollOut: the recorded file size grows by the size
\* of the block also when the block is a reused one
InsertRollOutGrowing(s, d1, freeBlockIndex, blockSize) ==
    IF freeBlockIndex = 0
    THEN Ret([s EXCEPT !.disk = d1, !.fsize = @ + blockSize], "OK")
    ELSE Ret([s EXCEPT !.disk = d1, !.fsize = @ + blockSize,
                       !.free = SubSeq(@, 1, freeBlockIndex - 1)
                                \o SubSeq(@, freeBlockIndex + 1, Len(@))], "OK")
\* Insert, roll-out (2024: step 8, 2023: step 7)
InsertRollOut(s, d1, freeBlockIndex, blockSize) ==
    IF freeBlockIndex = 0
    THEN Ret([s EXCEPT !.disk = d1, !.fsize = @ + blockSize], "OK")
    ELSE Ret([s EXCEPT !.disk = d1, !.free = VectorErase(@, freeBlockIndex)], "OK")

\* Insert, steps 5 and 6, with key already in the map: malloc, build, write
InsertWrite(s, key, value, freeBlockIndex, blockOffset, blockSize, f) ==
    IF ~MallocOk(blockSize, f)
    THEN IF revision = "2024"
         THEN Ret(Flag([s EXCEPT !.kvp = MapErase(@, key)], "BAD_ALLOC"), "BAD_ALLOC")
         ELSE Ret(Last(s, "BAD_ALLOC"), "BAD_ALLOC")
    ELSE LET block == BlockImage(blockSize, key, value, f.junk)
             m     == Written(blockSize, f.write)
             d1    == FileWrite(s.disk, blockOffset, block, m, f.junk)
         IN  IF m # blockSize
             THEN InsertRollBack(s, d1, key, blockOffset, blockSize, f)
             ELSE InsertRollOut(s, d1, freeBlockIndex, blockSize)

\* a faulty variant of InsertPlace: the result of keyValuePairs::insert is not
\* looked at
InsertPlaceUnchecked(s, key, value, f) ==
    LET dataSize       == DataSize(key, value)
        freeBlockIndex == FindFreeBlock(s.free, dataSize)
        blockOffset    == IF freeBlockIndex = 0 THEN s.fsize
                          ELSE s.free[freeBlockIndex].blockOffset
        blockSize      == IF freeBlockIndex = 0 THEN BlockSize(key, value)
                          ELSE SizeT(s.free[freeBlockIndex].blockSize)
    IN  InsertWrite([s EXCEPT !.kvp = (key :> blockOffset) @@ @], key, value,
                    freeBlockIndex, blockOffset, blockSize, f)

\* Insert, steps 2 to 4: the block to use, the seek, the map
InsertPlace(s, key, value, f) ==
    LET dataSize       == DataSize(key, value)
        freeBlockIndex == FindFreeBlock(s.free, dataSize)
        blockOffset    == IF freeBlockIndex = 0 THEN s.fsize
                          ELSE s.free[freeBlockIndex].blockOffset
        blockSize      == IF freeBlockIndex = 0 THEN BlockSize(key, value)
                          ELSE SizeT(s.free[freeBlockIndex].blockSize)
        ins            == MapInsert(s.kvp, key, blockOffset, f)
    IN  IF ~f.seek
        THEN IF revision = "2024" THEN Ret(Flag(s, "FILE_IO_ERROR"), "FILE_IO_ERROR")
             ELSE Ret(Last(s, "FILE_IO_ERROR"), "FILE_IO_ERROR")
        ELSE IF ins.e # "OK"
        THEN IF revision = "2024" THEN Ret(Flag(s, ins.e), ins.e)
             ELSE Ret(Last(s, ins.e), ins.e)
        ELSE InsertWrite([s EXCEPT !.kvp = ins.map], key, value, freeBlockIndex,
                         blockOffset, blockSize, f)

\* persistentKeyValuePairs::Insert (key, value)
Insert(s, key, value, f) ==
    IF ~s.open
    THEN IF revision = "2024" THEN Ret(Flag(s, "FILE_IO_ERROR"), "FILE_IO_ERROR")
         ELSE Ret(Last(s, "FILE_IO_ERROR"), "FILE_IO_ERROR")
    ELSE IF s.inIter # 0
    THEN IF revision = "2024" THEN Ret(Flag(s, "CANT_DO_IT_NOW"), "CANT_DO_IT_NOW")
         ELSE Ret(Last(s, "NOT_WHILE_ITERATING"), "NOT_WHILE_ITERATING")
    ELSE IF BlockSize(key, value) > MaxBlockSize
    THEN IF revision = "2024" THEN Ret(Flag(s, "BAD_ALLOC"), "BAD_ALLOC")
         ELSE Ret(Last(s, "BAD_ALLOC"), "BAD_ALLOC")
    ELSE InsertPlace(s, key, value, f)

----------------------------------------------------------------------------
\* persistentKeyValuePairs::FindBlockOffset (key, blockOffset): memory only.
\* 2023 returns NOT_FOUND without recording it in lastErrorCode.
FindBlockOffset(s, key) ==
    IF key \in DOMAIN s.kvp THEN RetOut(s, "OK", s.kvp[key])
    ELSE IF revision = "2024" THEN Ret(Flag(s, "NOT_FOUND"), "NOT_FOUND")
    ELSE Ret(s, "NOT_FOUND")

\* persistentKeyValuePairs::FindValue (key, value, blockOffset): hint is the
\* block offset passed, -1 when it is left out (0xFFFFFFFF); prior is what the
\* caller's value variable holds. out: what the value variable holds afterwards.
FindValue(s, key, prior, hint, f) ==
    IF ~s.open
    THEN IF revision = "2024" THEN RetOut(Flag(s, "FILE_IO_ERROR"), "FILE_IO_ERROR", prior)
         ELSE RetOut(Last(s, "FILE_IO_ERROR"), "FILE_IO_ERROR", prior)
    ELSE IF hint = -1 /\ key \notin DOMAIN s.kvp
    THEN IF revision = "2024" THEN RetOut(Flag(s, "NOT_FOUND"), "NOT_FOUND", prior)
         ELSE RetOut(s, "NOT_FOUND", prior)
    ELSE LET blockOffset == IF hint = -1 THEN s.kvp[key] ELSE hint
             b == __readBlock__(s.disk, blockOffset, FALSE, prior, f)
         IN  IF b.e # "OK"
             THEN IF revision = "2024"
                  THEN RetOut(Flag(Flag(s, b.e), "FILE_IO_ERROR"), "FILE_IO_ERROR", b.value)
                  ELSE RetOut(Last(s, b.e), b.e, b.value)
             ELSE IF b.blockSize > 0 /\ b.key = key
             THEN RetOut(s, "OK", b.value)
             ELSE IF revision = "2024"
                  THEN RetOut(Flag(s, "DATA_CHANGED"), "DATA_CHANGED", b.value)
                  ELSE RetOut(Last(s, "DATA_CHANGED"), "DATA_CHANGED", b.value)

----------------------------------------------------------------------------
\* Update. A hint is how pBlockOffset was passed:
\*   [kind |-> "none"]                     NULL: the map is searched
\*   [kind |-> "node", key |-> k]          &(p->blockOffset) of an iterator step:
\*                                         the address of the map's own field of k
\*   [kind |-> "var", blockOffset |-> o]   the address of a variable of the caller
NoHint == [kind |-> "none"]

\* the uint32_t that pBlockOffset points at (2023 ignores the parameter)
Pointee(s, key, hint) ==
    IF revision = "2023" \/ hint.kind = "none" THEN s.kvp[key]
    ELSE IF hint.kind = "node" THEN s.kvp[hint.key]
    ELSE hint.blockOffset

\* *pBlockOffset = newBlockOffset
StorePointee(s, key, hint, newBlockOffset) ==
    IF revision = "2023" \/ hint.kind = "none"
    THEN [s EXCEPT !.kvp = [@ EXCEPT ![key] = newBlockOffset]]
    ELSE IF hint.kind = "node"
    THEN [s EXCEPT !.kvp = [@ EXCEPT ![hint.key] = newBlockOffset]]
    ELSE s

\* a faulty variant of dataFileOffset: the position of the block, not of its value
dataFileOffsetOfBlock(key, old) == old
\* Update, step 5: the position of the value in the block at offset old (the
\* file stands there after the block size and the key were read)
dataFileOffset(key, old) == old + SizeofInt16 + Len(KeyBytes(key))

\* Update, step 5: the new value is written over the old one in the same block
UpdateSameBlock(s, key, newValue, old, f) ==
    LET buf == ValueBytes(newValue)
        m   == Written(Len(buf), f.write)
        d1  == FileWrite(s.disk, dataFileOffset(key, old), buf, m, f.junk)
    IN  IF ~f.seek
        THEN IF revision = "2024" THEN Ret(Flag(s, "FILE_IO_ERROR"), "FILE_IO_ERROR")
             ELSE Ret(Last(s, "FILE_IO_ERROR"), "FILE_IO_ERROR")
        ELSE IF m # Len(buf)
        THEN IF revision = "2024"
             THEN Ret(Flag(CloseFile([s EXCEPT !.disk = d1]), "FILE_IO_ERROR"),
                      "FILE_IO_ERROR")
             ELSE Ret(Last(CloseFile([s EXCEPT !.disk = d1]), "FILE_IO_ERROR"),
                      "FILE_IO_ERROR")
        ELSE Ret([s EXCEPT !.disk = d1], "OK")

\* a faulty variant of UpdateRollBack: the free tag is not written
UpdateRollBackNoTag(s, d1, newBlockOffset, newBlockSize, f) ==
    IF revision = "2024" THEN Ret(Flag([s EXCEPT !.disk = d1], "FILE_IO_ERROR"), "FILE_IO_ERROR")
    ELSE Ret(Last([s EXCEPT !.disk = d1], "FILE_IO_ERROR"), "FILE_IO_ERROR")

\* Update, step 10: roll-back after a failed write of the new block
UpdateRollBack(s, d1, newBlockOffset, newBlockSize, f) ==
    LET negated == SizeT(I16(0 - newBlockSize))
        m       == Written(SizeofSizeT, f.rbWrite)
        d2      == IF f.rbSeek THEN FileWrite(d1, newBlockOffset, LE4(negated), m, f.junk)
                   ELSE d1
        closed  == ~f.rbSeek \/ m # SizeofSizeT
        s2      == [s EXCEPT !.disk = d2, !.open = IF closed THEN FALSE ELSE @]
    IN  IF revision = "2024" THEN Ret(Flag(s2, "FILE_IO_ERROR"), "FILE_IO_ERROR")
        ELSE Ret(Last(s2, "FILE_IO_ERROR"), "FILE_IO_ERROR")

\* Update, step 11, its end in the 2024 revision: the old block goes to the free
\* list, then the map (or whatever pBlockOffset points at) gets the new offset
UpdateRollOutEnd2024(s, key, hint, old, blockSize, newBlockOffset, f) ==
    LET pushed == IF f.pushBack
                  THEN [s EXCEPT !.free = Append(@, [blockOffset |-> old,
                                                     blockSize |-> I16(0 - blockSize)])]
                  ELSE s
    IN  Ret(StorePointee(pushed, key, hint, newBlockOffset), "OK")

\* Update, step 11, its end in the 2023 revision: *blockOffset = newBlockOffset
\* comes first, and the push_back reads *blockOffset and the negated blockSize
UpdateRollOutEnd2023(s, key, hint, old, blockSize, newBlockOffset, f) ==
    LET stored == StorePointee(s, key, hint, newBlockOffset)
    IN  IF f.pushBack
        THEN Ret([stored EXCEPT !.free = Append(@, [blockOffset |-> stored.kvp[key],
                                                    blockSize |-> blockSize])], "OK")
        ELSE Ret(stored, "OK")

\* Update, step 11: roll-out. blockSize is the tag read in step 2.
UpdateRollOut(s, d1, key, hint, old, blockSize, freeBlockIndex, newBlockOffset, newBlockSize, f) ==
    LET s1  == IF freeBlockIndex = 0
               THEN [s EXCEPT !.disk = d1, !.fsize = @ + newBlockSize]
               ELSE [s EXCEPT !.disk = d1, !.free = VectorErase(@, freeBlockIndex)]
        neg == I16(0 - blockSize)
        m   == Written(SizeofInt16, f.freeWrite)
        d2  == FileWrite(d1, old, LE2(neg), m, f.junk)
    IN  IF ~f.freeSeek
        THEN IF revision = "2024"
             THEN Ret(Flag(CloseFile(s1), "FILE_IO_ERROR"), "FILE_IO_ERROR")
             ELSE Ret(Last(CloseFile(s1), "FILE_IO_ERROR"), "FILE_IO_ERROR")
        ELSE IF m # SizeofInt16
        THEN IF revision = "2024"
             THEN Ret(Flag(CloseFile([s1 EXCEPT !.disk = d2]), "FILE_IO_ERROR"),
                      "FILE_IO_ERROR")
             ELSE Ret(Last(CloseFile([s1 EXCEPT !.disk = d2]), "FILE_IO_ERROR"),
                      "FILE_IO_ERROR")
        ELSE IF revision = "2024"
        THEN UpdateRollOutEnd2024([s1 EXCEPT !.disk = d2], key, hint, old, neg,
                                  newBlockOffset, f)
        ELSE UpdateRollOutEnd2023([s1 EXCEPT !.disk = d2], key, hint, old, neg,
                                  newBlockOffset, f)

\* Update, steps 6 to 10: a new block is needed
UpdateNewBlock(s, key, newValue, hint, old, blockSize, f) ==
    LET dataSize       == DataSize(key, newValue)
        freeBlockIndex == FindFreeBlock(s.free, dataSize)
        newBlockOffset == IF freeBlockIndex = 0 THEN s.fsize
                          ELSE s.free[freeBlockIndex].blockOffset
        newBlockSize   == IF freeBlockIndex = 0 THEN BlockSize(key, newValue)
                          ELSE SizeT(s.free[freeBlockIndex].blockSize)
        block          == BlockImage(newBlockSize, key, newValue, f.junk)
        m              == Written(dataSize, f.write)
        d1             == FileWrite(s.disk, newBlockOffset, block, m, f.junk)
    IN  IF ~f.seek
        THEN IF revision = "2024" THEN Ret(Flag(s, "FILE_IO_ERROR"), "FILE_IO_ERROR")
             ELSE Ret(Last(s, "FILE_IO_ERROR"), "FILE_IO_ERROR")
        ELSE IF ~MallocOk(newBlockSize, f)
        THEN IF revision = "2024" THEN Ret(Flag(s, "BAD_ALLOC"), "BAD_ALLOC")
             ELSE Ret(Last(s, "BAD_ALLOC"), "BAD_ALLOC")
        ELSE IF m # dataSize
        THEN UpdateRollBack(s, d1, newBlockOffset, newBlockSize, f)
        ELSE UpdateRollOut(s, d1, key, hint, old, blockSize, freeBlockIndex,
                           newBlockOffset, newBlockSize, f)

\* a faulty variant of UpdateAt: the tag and the key read are not compared
UpdateAtUnchecked(s, key, newValue, hint, old, f) ==
    LET b == __readBlock__(s.disk, old, TRUE, <<>>, f)
    IN  IF b.e # "OK"
        THEN IF revision = "2024" THEN Ret(Flag(s, b.e), "FILE_IO_ERROR")
             ELSE Ret(Last(s, b.e), b.e)
        ELSE IF DataSize(key, newValue) <= b.blockSize
        THEN UpdateSameBlock(s, key, newValue, old, f)
        ELSE UpdateNewBlock(s, key, newValue, hint, old, b.blockSize, f)

\* Update, steps 2 to 4, for the block at offset old
UpdateAt(s, key, newValue, hint, old, f) ==
    LET b == __readBlock__(s.disk, old, TRUE, <<>>, f)
    IN  IF b.e # "OK"
        THEN IF revision = "2024" THEN Ret(Flag(s, b.e), "FILE_IO_ERROR")
             ELSE Ret(Last(s, b.e), b.e)
        ELSE IF b.blockSize <= 0 \/ b.key # key
        THEN IF revision = "2024" THEN Ret(Flag(s, "DATA_CHANGED"), "DATA_CHANGED")
             ELSE Ret(Last(s, "DATA_CHANGED"), "DATA_CHANGED")
        ELSE IF BlockSize(key, newValue) > MaxBlockSize
        THEN IF revision = "2024" THEN Ret(Flag(s, "BAD_ALLOC"), "BAD_ALLOC")
             ELSE Ret(Last(s, "BAD_ALLOC"), "BAD_ALLOC")
        ELSE IF DataSize(key, newValue) <= b.blockSize
        THEN UpdateSameBlock(s, key, newValue, old, f)
        ELSE UpdateNewBlock(s, key, newValue, hint, old, b.blockSize, f)

\* persistentKeyValuePairs::Update (key, newValue, pBlockOffset)
Update(s, key, newValue, hint, f) ==
    IF ~s.open
    THEN IF revision = "2024" THEN Ret(Flag(s, "FILE_IO_ERROR"), "FILE_IO_ERROR")
         ELSE Ret(Last(s, "FILE_IO_ERROR"), "FILE_IO_ERROR")
    ELSE IF (revision = "2023" \/ hint.kind = "none") /\ key \notin DOMAIN s.kvp
    THEN IF revision = "2024" THEN Ret(Flag(s, "NOT_FOUND"), "NOT_FOUND")
         ELSE Ret(s, "NOT_FOUND")
    ELSE UpdateAt(s, key, newValue, hint, Pointee(s, key, hint), f)

----------------------------------------------------------------------------
\* The update callbacks of the examples: value ++ (a counter), value.toUpperCase ()
\* and value += "y"
AppendedChar == 121
ToUpper(c) == IF c >= 97 /\ c <= 122 THEN c - 32 ELSE c
updateCallback(cb, value) ==
    IF cb = "increment" THEN value + 1
    ELSE IF cb = "toUpperCase" THEN [i \in 1..Len(value) |-> ToUpper(value[i])]
    ELSE value \o <<AppendedChar>>

\* persistentKeyValuePairs::Update (key, updateCallback, pBlockOffset), 2024 only:
\* what it returns after its Update returned u
UpdateCallbackEnd(u) == IF u.ret # "OK" THEN Ret(Flag(u.s, u.ret), u.ret) ELSE u

\* a faulty variant of UpdateCallbackFound: the callback is not called
UpdateCallbackFoundStale(found, key, cb, hint, f) ==
    IF found.ret # "OK" THEN Ret(Flag(found.s, found.ret), found.ret)
    ELSE UpdateCallbackEnd(Update(found.s, key, found.out[1], hint, f))

\* the callback form of Update after its FindValue returned found
UpdateCallbackFound(found, key, cb, hint, f) ==
    IF found.ret # "OK" THEN Ret(Flag(found.s, found.ret), found.ret)
    ELSE UpdateCallbackEnd(Update(found.s, key, updateCallback(cb, found.out[1]), hint, f))

\* fFind is the fault plan of its FindValue, f the one of its Update.
UpdateCallback(s, key, cb, hint, fFind, f) ==
    IF ~s.open THEN Ret(Flag(s, "FILE_IO_ERROR"), "FILE_IO_ERROR")
    ELSE UpdateCallbackFound(FindValue(s, key, IF valueIsString THEN <<>> ELSE 0, -1, fFind),
                             key, cb, hint, f)

\* Upsert, both forms: what it returns after its Update or its Insert returned r
UpsertEnd(r) == IF r.ret # "OK" THEN Ret(Flag(r.s, r.ret), r.ret) ELSE Ret(r.s, "OK")

\* Upsert, both forms, after its Update returned u: Insert if that was NOT_FOUND
UpsertInsert(u, key, value, f) ==
    UpsertEnd(IF u.ret = "NOT_FOUND" THEN Insert(u.s, key, value, f) ELSE u)

\* persistentKeyValuePairs::Upsert (key, newValue), 2024 only
Upsert(s, key, newValue, f) ==
    IF ~s.open THEN Ret(Flag(s, "FILE_IO_ERROR"), "FILE_IO_ERROR")
    ELSE UpsertInsert(Update(s, key, newValue, NoHint, f), key, newValue, f)

\* persistentKeyValuePairs::Upsert (key, updateCallback, defaultValue), 2024 only
UpsertCallback(s, key, cb, defaultValue, fFind, f) ==
    IF ~s.open THEN Ret(Flag(s, "FILE_IO_ERROR"), "FILE_IO_ERROR")
    ELSE UpsertInsert(UpdateCallback(s, key, cb, NoHint, fFind, f), key, defaultValue, f)

----------------------------------------------------------------------------
\* a faulty variant of DeleteRollBack: the key is not put back into the map
DeleteRollBackLosingKey(s, d1, key, blockOffset, f) ==
    IF revision = "2024"
    THEN Ret(Flag([s EXCEPT !.disk = d1], "FILE_IO_ERROR"), "FILE_IO_ERROR")
    ELSE Ret(Last([s EXCEPT !.disk = d1], "FILE_IO_ERROR"), "FILE_IO_ERROR")

\* Delete, step 5 (roll-back): the key is put back into the map; the file is
\* closed when that fails
DeleteRollBack(s, d1, key, blockOffset, f) ==
    LET back == IF f.rbInsert
                THEN [s EXCEPT !.disk = d1, !.kvp = (key :> blockOffset) @@ s.kvp]
                ELSE CloseFile([s EXCEPT !.disk = d1])
    IN  IF revision = "2024" THEN Ret(Flag(back, "FILE_IO_ERROR"), "FILE_IO_ERROR")
        ELSE Ret(Last(back, "FILE_IO_ERROR"), "FILE_IO_ERROR")

\* a faulty variant of DeleteAt: the size that goes to the free list is the
\* negated one that was written to the file
DeleteAtNegated(s, key, blockOffset, f) ==
    IF ~f.seek \/ ~f.read \/ blockOffset + SizeofInt16 > Len(s.disk)
    THEN IF revision = "2024" THEN Ret(Flag(s, "FILE_IO_ERROR"), "FILE_IO_ERROR")
         ELSE Ret(Last(s, "FILE_IO_ERROR"), "FILE_IO_ERROR")
    ELSE LET blockSize == I16(FromLE(Bytes(s.disk, blockOffset, SizeofInt16)))
             neg == I16(0 - blockSize)
             m   == Written(SizeofInt16, f.freeWrite)
             d1  == FileWrite(s.disk, blockOffset, LE2(neg), m, f.junk)
             s1  == [s EXCEPT !.kvp = MapErase(@, key)]
         IN  IF blockSize < 0
             THEN IF revision = "2024" THEN Ret(Flag(s, "DATA_CHANGED"), "DATA_CHANGED")
                  ELSE Ret(Last(s, "DATA_CHANGED"), "DATA_CHANGED")
             ELSE IF ~f.freeSeek THEN DeleteRollBack(s1, s.disk, key, blockOffset, f)
             ELSE IF m # SizeofInt16 THEN DeleteRollBack(s1, d1, key, blockOffset, f)
             ELSE IF f.pushBack
             THEN Ret([s1 EXCEPT !.disk = d1,
                                 !.free = Append(@, [blockOffset |-> blockOffset,
                                                     blockSize |-> neg])], "OK")
             ELSE Ret([s1 EXCEPT !.disk = d1], "OK")

\* Delete, steps 2 to 5, for the block at blockOffset
DeleteAt(s, key, blockOffset, f) ==
    IF ~f.seek \/ ~f.read \/ blockOffset + SizeofInt16 > Len(s.disk)
    THEN IF revision = "2024" THEN Ret(Flag(s, "FILE_IO_ERROR"), "FILE_IO_ERROR")
         ELSE Ret(Last(s, "FILE_IO_ERROR"), "FILE_IO_ERROR")
    ELSE LET blockSize == I16(FromLE(Bytes(s.disk, blockOffset, SizeofInt16)))
             neg == I16(0 - blockSize)
             m   == Written(SizeofInt16, f.freeWrite)
             d1  == FileWrite(s.disk, blockOffset, LE2(neg), m, f.junk)
             s1  == [s EXCEPT !.kvp = MapErase(@, key)]
         IN  IF blockSize < 0
             THEN IF revision = "2024" THEN Ret(Flag(s, "DATA_CHANGED"), "DATA_CHANGED")
                  ELSE Ret(Last(s, "DATA_CHANGED"), "DATA_CHANGED")
             ELSE IF ~f.freeSeek THEN DeleteRollBack(s1, s.disk, key, blockOffset, f)
             ELSE IF m # SizeofInt16 THEN DeleteRollBack(s1, d1, key, blockOffset, f)
             ELSE IF f.pushBack
             THEN Ret([s1 EXCEPT !.disk = d1,
                                 !.free = Append(@, [blockOffset |-> blockOffset,
                                                     blockSize |-> I16(0 - neg)])], "OK")
             ELSE Ret([s1 EXCEPT !.disk = d1], "OK")

\* persistentKeyValuePairs::Delete (key). When the key is not found the 2023
\* revision returns lastErrorCode, which FindBlockOffset has not set.
Delete(s, key, f) ==
    IF ~s.open
    THEN IF revision = "2024" THEN Ret(Flag(s, "FILE_IO_ERROR"), "FILE_IO_ERROR")
         ELSE Ret(Last(s, "FILE_IO_ERROR"), "FILE_IO_ERROR")
    ELSE IF s.inIter # 0
    THEN IF revision = "2024" THEN Ret(Flag(s, "CANT_DO_IT_NOW"), "CANT_DO_IT_NOW")
         ELSE Ret(Last(s, "NOT_WHILE_ITERATING"), "NOT_WHILE_ITERATING")
    ELSE LET found == FindBlockOffset(s, key)
         IN  IF found.ret # "OK"
             THEN IF revision = "2024" THEN Ret(found.s, found.ret)
                  ELSE Ret(found.s, found.s.lastErr)
             ELSE DeleteAt(s, key, found.out[1], f)

\* a faulty variant of Truncate: __freeBlocksList__ is not cleared
TruncateKeepingFreeList(s, f) ==
    IF s.inIter # 0
    THEN IF revision = "2024" THEN Ret(Flag(s, "CANT_DO_IT_NOW"), "CANT_DO_IT_NOW")
         ELSE Ret(Last(s, "NOT_WHILE_ITERATING"), "NOT_WHILE_ITERATING")
    ELSE IF ~s.named \/ f.open = "create"
    THEN IF revision = "2024" THEN Ret(Flag(CloseFile(s), "FILE_IO_ERROR"), "FILE_IO_ERROR")
         ELSE Ret(Last(CloseFile(s), "FILE_IO_ERROR"), "FILE_IO_ERROR")
    ELSE IF f.open = "reopen"
    THEN IF revision = "2024"
         THEN Ret(Flag(CloseFile([s EXCEPT !.disk = <<>>, !.exists = TRUE]),
                       "FILE_IO_ERROR"), "FILE_IO_ERROR")
         ELSE Ret(Last(CloseFile([s EXCEPT !.disk = <<>>, !.exists = TRUE]),
                       "FILE_IO_ERROR"), "FILE_IO_ERROR")
    ELSE Ret([s EXCEPT !.disk = <<>>, !.exists = TRUE, !.open = TRUE, !.fsize = 0,
                       !.kvp = <<>>], "OK")

\* persistentKeyValuePairs::Truncate (). f.open tells which open fails, if any:
\* "create" the fileSystem.open (name, "w", true), "reopen" the one with "r+".
Truncate(s, f) ==
    IF s.inIter # 0
    THEN IF revision = "2024" THEN Ret(Flag(s, "CANT_DO_IT_NOW"), "CANT_DO_IT_NOW")
         ELSE Ret(Last(s, "NOT_WHILE_ITERATING"), "NOT_WHILE_ITERATING")
    ELSE IF ~s.named \/ f.open = "create"
    THEN IF revision = "2024" THEN Ret(Flag(CloseFile(s), "FILE_IO_ERROR"), "FILE_IO_ERROR")
         ELSE Ret(Last(CloseFile(s), "FILE_IO_ERROR"), "FILE_IO_ERROR")
    ELSE IF f.open = "reopen"
    THEN IF revision = "2024"
         THEN Ret(Flag(CloseFile([s EXCEPT !.disk = <<>>, !.exists = TRUE]),
                       "FILE_IO_ERROR"), "FILE_IO_ERROR")
         ELSE Ret(Last(CloseFile([s EXCEPT !.disk = <<>>, !.exists = TRUE]),
                       "FILE_IO_ERROR"), "FILE_IO_ERROR")
    ELSE Ret([s EXCEPT !.disk = <<>>, !.exists = TRUE, !.open = TRUE, !.fsize = 0,
                       !.kvp = <<>>, !.free = <<>>], "OK")

----------------------------------------------------------------------------
\* loadData: the scan loop, from blockOffset on (a uint64_t: a negative number
\* here is one past 0xFFFFFFFF there). A tag of 0 takes
\* the free-block branch and adds 0 to blockOffset, so the loop pushes the same
\* entry until push_back runs out of memory; one such entry stands for them.
RECURSIVE loadBlocks(_, _, _)
loadBlocks(s, blockOffset, f) ==
    IF blockOffset < 0 \/ blockOffset >= s.fsize THEN Ret(s, "OK")
    ELSE LET b == __readBlock__(s.disk, blockOffset, TRUE, <<>>, f)
             ins == MapInsert(s.kvp, b.key, blockOffset, f)
             neg == I16(0 - b.blockSize)
             pushed == [s EXCEPT !.free = Append(@, [blockOffset |-> blockOffset,
                                                     blockSize |-> neg])]
         IN  IF b.e # "OK"
             THEN IF revision = "2024" THEN Ret(Flag(CloseFile(s), b.e), b.e)
                  ELSE Ret(Last(s, "FILE_IO_ERROR"), "FILE_IO_ERROR")
             ELSE IF b.blockSize > 0
             THEN IF ins.e # "OK"
                  THEN IF revision = "2024" THEN Ret(Flag(CloseFile(s), ins.e), ins.e)
                       ELSE Ret(Last(s, ins.e), ins.e)
                  ELSE loadBlocks([s EXCEPT !.kvp = ins.map], blockOffset + b.blockSize, f)
             ELSE IF ~f.pushBack \/ neg = 0
             THEN LET full == IF neg = 0 THEN pushed ELSE s
                  IN  IF revision = "2024"
                      THEN Ret(Flag(CloseFile(full), "BAD_ALLOC"), "BAD_ALLOC")
                      ELSE Ret(Last(full, "BAD_ALLOC"), "BAD_ALLOC")
             ELSE loadBlocks(pushed, blockOffset + neg, f)

\* loadData, after the precondition: create the file if it is missing, open it,
\* take its size and scan it
loadFile(s, f) ==
    LET named   == [s EXCEPT !.named = TRUE]
        created == IF s.exists THEN named ELSE [named EXCEPT !.exists = TRUE, !.disk = <<>>]
        opened  == [created EXCEPT !.open = TRUE, !.fsize = Len(created.disk)]
    IN  IF ~s.exists /\ f.open = "create"
        THEN IF revision = "2024" THEN Ret(Flag(named, "FILE_IO_ERROR"), "FILE_IO_ERROR")
             ELSE Ret(Last(named, "FILE_IO_ERROR"), "FILE_IO_ERROR")
        ELSE IF f.open = "reopen"
        THEN IF revision = "2024" THEN Ret(Flag(created, "FILE_IO_ERROR"), "FILE_IO_ERROR")
             ELSE Ret(Last(created, "FILE_IO_ERROR"), "FILE_IO_ERROR")
        ELSE loadBlocks(opened, 0, f)

\* the instance as the scan of loadData finds it: the file is there and open,
\* __dataFileSize__ is its length
scanStart(s) ==
    LET kept == IF revision = "2024" THEN s
                ELSE [s EXCEPT !.open = FALSE, !.kvp = <<>>, !.free = <<>>]
    IN  [kept EXCEPT !.named = TRUE, !.exists = TRUE,
                     !.disk = IF s.exists THEN @ ELSE <<>>,
                     !.open = TRUE, !.fsize = IF s.exists THEN Len(s.disk) ELSE 0]

\* the scan of loadData from blockOffset on ends because __readBlock__ fails
RECURSIVE readBlockFails(_, _, _)
readBlockFails(s, blockOffset, f) ==
    IF blockOffset < 0 \/ blockOffset >= s.fsize THEN FALSE
    ELSE LET b == __readBlock__(s.disk, blockOffset, TRUE, <<>>, f)
             ins == MapInsert(s.kvp, b.key, blockOffset, f)
             neg == I16(0 - b.blockSize)
         IN  IF b.e # "OK" THEN TRUE
             ELSE IF b.blockSize > 0
             THEN ins.e = "OK"
                  /\ readBlockFails([s EXCEPT !.kvp = ins.map], blockOffset + b.blockSize, f)
             ELSE f.pushBack /\ neg # 0 /\ readBlockFails(s, blockOffset + neg, f)

\* persistentKeyValuePairs::loadData (dataFileName). The 2024 revision refuses
\* when a file is open and keeps what the map and the free list hold; the 2023
\* revision closes the file and clears both first.
loadData(s, f) ==
    IF revision = "2024"
    THEN IF s.open THEN Ret(Flag(s, "CANT_DO_IT_NOW"), "CANT_DO_IT_NOW")
         ELSE loadFile(s, f)
    ELSE loadFile([s EXCEPT !.open = FALSE, !.kvp = <<>>, !.free = <<>>], f)

\* ~persistentKeyValuePairs () followed by the construction of a new instance
\* (persistentKeyValuePairs ()): the file stays, everything in memory is new
Constructed(s) ==
    [s EXCEPT !.open = FALSE, !.named = FALSE, !.fsize = 0, !.kvp = <<>>,
              !.free = <<>>, !.flags = {}, !.lastErr = "OK", !.inIter = 0]

----------------------------------------------------------------------------
\* What the environment does to one call: which seek, read, write, allocation
\* or open fails. write, rbWrite and freeWrite are the number of bytes a write
\* gets through (-1: all of them); junk is the byte found in memory that malloc
\* returned and was not filled.
NoFault ==
    [read |-> TRUE, seek |-> TRUE, mapInsert |-> TRUE, malloc |-> TRUE, write |-> -1,
     rbSeek |-> TRUE, rbWrite |-> -1, freeSeek |-> TRUE, freeWrite |-> -1,
     pushBack |-> TRUE, rbInsert |-> TRUE, open |-> "ok", concat |-> TRUE, junk |-> 0]
JunkByte == 255
HeapBytes == {0, JunkByte}
BlockCuts == {0, 1, 6}
RollBackCuts == {-1, 0, 1, 2}
TagCuts == {0, 1}
Junk(plans) == {[p EXCEPT !.junk = scope.heap] : p \in plans}
ReadFaults == {[NoFault EXCEPT !.read = FALSE], [NoFault EXCEPT !.concat = FALSE]}
WriteFaults ==
    {[NoFault EXCEPT !.seek = FALSE], [NoFault EXCEPT !.malloc = FALSE]}
    \cup {[NoFault EXCEPT !.write = w, !.rbWrite = r] : w \in BlockCuts, r \in RollBackCuts}
    \cup {[NoFault EXCEPT !.write = w, !.rbSeek = FALSE] : w \in BlockCuts}
FreeFaults ==
    {[NoFault EXCEPT !.pushBack = FALSE]}
    \cup {[NoFault EXCEPT !.freeSeek = FALSE, !.rbInsert = b] : b \in BOOLEAN}
    \cup {[NoFault EXCEPT !.freeWrite = w, !.rbInsert = b] : w \in TagCuts, b \in BOOLEAN}
OpenFaults == {[NoFault EXCEPT !.open = o] : o \in {"create", "reopen"}}
InsertPlans == Junk({NoFault, [NoFault EXCEPT !.mapInsert = FALSE]} \cup WriteFaults)
UpdatePlans == Junk({NoFault} \cup ReadFaults \cup WriteFaults \cup FreeFaults)
DeletePlans == {NoFault, [NoFault EXCEPT !.seek = FALSE]} \cup ReadFaults \cup FreeFaults
FindPlans == {NoFault} \cup ReadFaults
LoadPlans == {NoFault, [NoFault EXCEPT !.mapInsert = FALSE],
              [NoFault EXCEPT !.pushBack = FALSE]} \cup ReadFaults \cup OpenFaults
TruncatePlans == {NoFault} \cup OpenFaults
\* the ways the write of the new block in Update, step 9, can fail
BlockWriteFaults == {f \in UpdatePlans : f.write # -1}
Faulty(f) == [f EXCEPT !.junk = 0] # NoFault
\* the plans the environment may still follow
Allowed(plans) ==
    IF scope.faults /\ faults < MaxFaults THEN plans ELSE {f \in plans : ~Faulty(f)}

----------------------------------------------------------------------------
\* The instance and its file as one record, and back

DataFileName == "/A.kvp"

Cur ==
    [disk |-> disk, exists |-> fileExists, named |-> __dataFileName__ # "",
     open |-> __dataFile__, fsize |-> __dataFileSize__, kvp |-> kvp,
     free |-> __freeBlocksList__, flags |-> __errorFlags__, lastErr |-> lastErrorCode,
     inIter |-> __inIteration__]

Install(s) ==
    /\ disk' = s.disk
    /\ fileExists' = s.exists
    /\ __dataFileName__' = IF s.named THEN DataFileName ELSE ""
    /\ __dataFile__' = s.open
    /\ __dataFileSize__' = s.fsize
    /\ kvp' = s.kvp
    /\ __freeBlocksList__' = s.free
    /\ __errorFlags__' = s.flags
    /\ lastErrorCode' = s.lastErr
    /\ __inIteration__' = s.inIter

\* The inputs of the calls
StringKeys == {<<97>>, <<98>>}
Keys == IF keyIsString THEN StringKeys ELSE 1..MaxKey
ValueChar == AppendedChar
RECURSIVE Repeat(_, _)
Repeat(c, n) == IF n = 0 THEN <<>> ELSE <<c>> \o Repeat(c, n - 1)
ShortValues == {Repeat(ValueChar, n) : n \in 0..MaxValueLength}
\* values whose blocks are about MaxBlockSize bytes long
LongValues ==
    {[i \in 1..n |-> ValueChar] : n \in (LimitValueLength - 1)..(LimitValueLength + 1)}
Values == IF scope.long THEN {<<>>} \cup LongValues ELSE ShortValues

\* a faulty variant of CanTake: the semaphore is given to every task that asks
CanTakeHeld(t) == t \in Tasks
\* xSemaphoreTakeRecursive returns at once for task t
CanTake(t) == semOwner \in {NoTask, t}

\* the key the iterator of task t stands at (NoKey at the end), keys ascending
RECURSIVE Sorted(_)
Sorted(S) == IF S = {} THEN <<>> ELSE <<Min(S)>> \o Sorted(S \ {Min(S)})
AtKey(map, pos) == IF pos <= Len(Sorted(DOMAIN map)) THEN Sorted(DOMAIN map)[pos] ELSE NoKey
Iterating(t) == Len(iter[t]) > 0
IterKey(t) == AtKey(kvp, iter[t][Len(iter[t])])

\* how a caller can pass pBlockOffset to Update, and a block offset to FindValue:
\* the offset that FindBlockOffset (key) delivers ("own"), or the offset of any
\* block it has heard of ("any")
Offsets(key) ==
    IF scope.hints \in {"own", "node"} THEN {kvp[k] : k \in DOMAIN kvp \cap {key}}
    ELSE IF scope.hints = "any"
    THEN {kvp[k] : k \in DOMAIN kvp}
         \cup {__freeBlocksList__[i].blockOffset : i \in DOMAIN __freeBlocksList__}
    ELSE {}
Hints(t, key) ==
    {NoHint}
    \cup (IF scope.hints = "node" THEN {}
          ELSE {[kind |-> "var", blockOffset |-> o] : o \in Offsets(key)})
    \cup (IF Iterating(t) /\ key \in DOMAIN kvp /\ IterKey(t) = key
          THEN {[kind |-> "node", key |-> key]} ELSE {})

----------------------------------------------------------------------------
\* The calls of one task after another (every call runs from its Lock () to its
\* Unlock () before the next call starts)

\* history: the abstract map after a call
Written1(key, value) == (key :> value) @@ amap
Erased1(key) == [k \in DOMAIN amap \ {key} |-> amap[k]]

\* history: the last operation on the instance
NoCall ==
    [op |-> "construct", key |-> 0, value |-> <<>>, hint |-> "none", offset |-> -1,
     ret |-> "OK", effect |-> "none"]

\* history: what a call did to the block structure
Effect(pre, post) ==
    IF post.fsize # pre.fsize THEN "resized"
    ELSE IF post.free # pre.free THEN "free list"
    ELSE IF post.disk # pre.disk THEN "in place"
    ELSE "none"

\* history: what the instance held and delivered when it was destroyed, kept
\* until the next call
NoSnapshot == [valid |-> FALSE, kvp |-> <<>>, free |-> <<>>, found |-> <<>>]

\* the operations that change the file and close it when their roll-back fails
RollingBack == {"Insert", "Update", "UpdateCallback", "Upsert", "UpsertCallback", "Delete"}

\* A call of task t returns r; plain is what it returns when the environment
\* does not fail. map is the abstract map if the call returns OK.
Call(t, op, key, value, hint, f, r, plain, map, modifying) ==
    /\ CanTake(t)
    /\ scope.stopAtFault => faults = 0
    /\ Faulty(f) => r # plain
    /\ r.ret # "OK" => errs < scope.maxErrors
    /\ Len(r.s.disk) <= scope.maxFileSize
    /\ r.s.fsize <= scope.maxFileSize
    /\ Install(r.s)
    /\ faults' = IF Faulty(f) THEN faults + 1 ELSE faults
    /\ errs' = IF r.ret # "OK" THEN errs + 1 ELSE errs
    /\ last' = IF scope.history = "op"
               THEN [NoCall EXCEPT !.op = op, !.ret = r.ret]
               ELSE [op |-> op, key |-> key,
                     value |-> IF scope.history \in {"full", "all"} THEN value ELSE <<>>,
                     hint |-> hint.kind,
                     offset |-> IF scope.history = "all" /\ hint.kind = "var"
                                THEN hint.blockOffset ELSE -1,
                     ret |-> r.ret, effect |-> Effect(Cur, r.s)]
    /\ allOk' = (allOk /\ (modifying => r.ret = "OK"))
    /\ amap' = IF modifying /\ r.ret = "OK" THEN map ELSE amap
    /\ atClose' = NoSnapshot
    /\ fatal' = IF Cur.open /\ ~r.s.open /\ op \in RollingBack THEN TRUE
                ELSE fatal /\ ~r.s.open /\ op # "loadData"
    /\ UNCHANGED <<scope, revision, keyIsString, valueIsString, semOwner, semCount, pc,
                   local, incs>>

Plain(f) == [NoFault EXCEPT !.junk = f.junk]
\* the environment does not fail
Quiet == [NoFault EXCEPT !.junk = scope.heap]

\* the cursors after a call: a call that changes the map under a live iterator
\* leaves the iterator dangling, its position is then anyone's guess
Cursors(map) ==
    IF map = kvp THEN {iter}
    ELSE {[t \in Tasks |-> [i \in DOMAIN iter[t] |-> p]] : p \in 1..(Cardinality(DOMAIN map) + 1)}

DoLoadData(t) ==
    \E f \in Allowed(LoadPlans) :
        /\ Call(t, "loadData", 0, <<>>, NoHint, f, loadData(Cur, f), loadData(Cur, Plain(f)),
                amap, TRUE)
        /\ iter' \in Cursors(loadData(Cur, f).s.kvp)

DoInsert(t) ==
    \E key \in Keys, value \in Values, f \in Allowed(InsertPlans) :
        /\ Call(t, "Insert", key, value, NoHint, f, Insert(Cur, key, value, f),
                Insert(Cur, key, value, Plain(f)), Written1(key, value), TRUE)
        /\ iter' = iter

DoFindBlockOffset(t) ==
    \E key \in Keys :
        /\ Call(t, "FindBlockOffset", key, <<>>, NoHint, NoFault, FindBlockOffset(Cur, key),
                FindBlockOffset(Cur, key), amap, FALSE)
        /\ iter' = iter

\* FindValue (key, &value) and FindValue (key, &value, blockOffset); the
\* caller's value variable holds prior
DoFindValue(t) ==
    \E key \in Keys, prior \in scope.priors, f \in Allowed(FindPlans) :
      \E hint \in {-1} \cup Offsets(key) :
        /\ Call(t, "FindValue", key, prior, IF hint = -1 THEN NoHint
                                              ELSE [kind |-> "var", blockOffset |-> hint],
                f, FindValue(Cur, key, prior, hint, f),
                FindValue(Cur, key, prior, hint, Plain(f)), amap, FALSE)
        /\ iter' = iter

DoUpdate(t) ==
    \E key \in Keys, value \in Values, f \in Allowed(UpdatePlans) :
        \E hint \in Hints(t, key) :
            /\ Call(t, "Update", key, value, hint, f, Update(Cur, key, value, hint, f),
                    Update(Cur, key, value, hint, Plain(f)), Written1(key, value), TRUE)
            /\ iter' = iter

\* the callback appends a character: the value it gets must leave room for it
CanGrow(key) ==
    LET found == FindValue(Cur, key, <<>>, -1, NoFault)
    IN  found.ret = "OK" => Len(found.out[1]) < MaxValueLength

DoUpdateCallback(t) ==
    \E key \in {k \in Keys : revision = "2024" /\ CanGrow(k)}, f \in Allowed(UpdatePlans) :
        \E hint \in Hints(t, key) :
            /\ Call(t, "UpdateCallback", key, <<>>, hint, f,
                    UpdateCallback(Cur, key, "append", hint, NoFault, f),
                    UpdateCallback(Cur, key, "append", hint, NoFault, Plain(f)),
                    IF key \in DOMAIN amap
                    THEN Written1(key, updateCallback("append", amap[key])) ELSE amap, TRUE)
            /\ iter' = iter

DoUpsert(t) ==
    \E key \in {k \in Keys : revision = "2024"}, value \in Values, f \in Allowed(InsertPlans) :
        /\ Call(t, "Upsert", key, value, NoHint, f, Upsert(Cur, key, value, f),
                Upsert(Cur, key, value, Plain(f)), Written1(key, value), TRUE)
        /\ iter' = iter

DoUpsertCallback(t) ==
    \E key \in {k \in Keys : revision = "2024" /\ CanGrow(k)}, value \in Values,
       f \in Allowed(InsertPlans) :
        /\ Call(t, "UpsertCallback", key, value, NoHint, f,
                UpsertCallback(Cur, key, "append", value, NoFault, f),
                UpsertCallback(Cur, key, "append", value, NoFault, Plain(f)),
                IF key \in DOMAIN amap
                THEN Written1(key, updateCallback("append", amap[key]))
                ELSE Written1(key, value), TRUE)
        /\ iter' = iter

DoDelete(t) ==
    \E key \in Keys, f \in Allowed(DeletePlans) :
        /\ Call(t, "Delete", key, <<>>, NoHint, f, Delete(Cur, key, f),
                Delete(Cur, key, Plain(f)), Erased1(key), TRUE)
        /\ iter' = iter

DoTruncate(t) ==
    \E f \in Allowed(TruncatePlans) :
        /\ revision = "2023" => __dataFileName__ # ""
        /\ Call(t, "Truncate", 0, <<>>, NoHint, f, Truncate(Cur, f), Truncate(Cur, Plain(f)),
                <<>>, TRUE)
        /\ iter' \in Cursors(Truncate(Cur, f).s.kvp)

\* clearErrorFlags () / clearLastErrorCode ()
DoClearErrors(t) ==
    /\ __errorFlags__ # {} \/ lastErrorCode # "OK"
    /\ __errorFlags__' = {}
    /\ lastErrorCode' = "OK"
    /\ last' = [NoCall EXCEPT !.op = "clearErrorFlags"]
    /\ UNCHANGED <<scope, revision, keyIsString, valueIsString, disk, fileExists, __dataFileName__,
                   __dataFile__, __dataFileSize__, kvp, __freeBlocksList__, __inIteration__,
                   semOwner, semCount, iter, pc, local, allOk, atClose, amap, faults,
                   errs, incs, fatal>>

\* begin (): Lock (), __inIteration__ ++, an iterator at the smallest key
Begin(t) ==
    /\ scope.iterate
    /\ CanTake(t)
    /\ __inIteration__ < MaxIterators
    /\ semOwner' = t
    /\ semCount' = semCount + 1
    /\ __inIteration__' = __inIteration__ + 1
    /\ iter' = [iter EXCEPT ![t] = Append(@, 1)]
    /\ last' = [NoCall EXCEPT !.op = "begin"]
    /\ UNCHANGED <<scope, revision, keyIsString, valueIsString, disk, fileExists, __dataFileName__,
                   __dataFile__, __dataFileSize__, kvp, __freeBlocksList__, __errorFlags__,
                   lastErrorCode, pc, local, allOk, atClose, amap, faults, errs,
                   incs, fatal>>

\* a faulty variant of IterNext: the step skips a pair
IterNextSkipping(t) ==
    /\ Iterating(t)
    /\ iter[t][Len(iter[t])] <= Cardinality(DOMAIN kvp)
    /\ iter' = [iter EXCEPT ![t][Len(iter[t])] = @ + 2]
    /\ last' = [NoCall EXCEPT !.op = "++"]
    /\ UNCHANGED <<scope, revision, keyIsString, valueIsString, disk, fileExists, __dataFileName__,
                   __dataFile__, __dataFileSize__, kvp, __freeBlocksList__, __inIteration__,
                   __errorFlags__, lastErrorCode, semOwner, semCount, pc, local,
                   allOk, atClose, amap, faults, errs, incs, fatal>>

\* operator ++ of the iterator that task t got last
IterNext(t) ==
    /\ Iterating(t)
    /\ iter[t][Len(iter[t])] <= Cardinality(DOMAIN kvp)
    /\ iter' = [iter EXCEPT ![t][Len(iter[t])] = @ + 1]
    /\ last' = [NoCall EXCEPT !.op = "++"]
    /\ UNCHANGED <<scope, revision, keyIsString, valueIsString, disk, fileExists, __dataFileName__,
                   __dataFile__, __dataFileSize__, kvp, __freeBlocksList__, __inIteration__,
                   __errorFlags__, lastErrorCode, semOwner, semCount, pc, local,
                   allOk, atClose, amap, faults, errs, incs, fatal>>

\* ~Iterator (): __inIteration__ --, Unlock ()
IterDrop(t) ==
    /\ Iterating(t)
    /\ iter' = [iter EXCEPT ![t] = SubSeq(@, 1, Len(@) - 1)]
    /\ __inIteration__' = __inIteration__ - 1
    /\ semCount' = semCount - 1
    /\ semOwner' = IF semCount = 1 THEN NoTask ELSE semOwner
    /\ last' = [NoCall EXCEPT !.op = "~Iterator"]
    /\ UNCHANGED <<scope, revision, keyIsString, valueIsString, disk, fileExists, __dataFileName__,
                   __dataFile__, __dataFileSize__, kvp, __freeBlocksList__, __errorFlags__,
                   lastErrorCode, pc, local, allOk, atClose, amap, faults, errs,
                   incs, fatal>>

\* history: what the instance holds and delivers when it is destroyed
Snapshot ==
    [valid |-> TRUE, kvp |-> kvp, free |-> __freeBlocksList__,
     found |-> [k \in DOMAIN kvp |->
                   LET r == FindValue(Cur, k, <<>>, -1, NoFault) IN <<r.ret, r.out>>]]

\* the instance goes out of scope (its destructor closes the file) and a new
\* one is constructed
Destroy(t) ==
    /\ scope.reopen
    /\ semOwner = NoTask
    /\ __dataFile__
    /\ Install(Constructed(Cur))
    /\ atClose' = Snapshot
    /\ last' = [NoCall EXCEPT !.op = "destroy"]
    /\ fatal' = FALSE
    /\ UNCHANGED <<scope, revision, keyIsString, valueIsString, semOwner, semCount, iter,
                   pc, local, allOk, amap, faults, errs, incs>>

----------------------------------------------------------------------------
\* the state after persistentKeyValuePairs<int, String> () on a file system
\* without the data file
InitInstance ==
    /\ disk = <<>>
    /\ fileExists = FALSE
    /\ __dataFileName__ = ""
    /\ __dataFile__ = FALSE
    /\ __dataFileSize__ = 0
    /\ kvp = <<>>
    /\ __freeBlocksList__ = <<>>
    /\ __inIteration__ = 0
    /\ __errorFlags__ = {}
    /\ lastErrorCode = "OK"
    /\ semOwner = NoTask
    /\ semCount = 0
    /\ iter = [t \in Tasks |-> <<>>]
    /\ pc = [t \in Tasks |-> "idle"]
    /\ local = [t \in Tasks |-> <<>>]
    /\ last = NoCall
    /\ allOk = TRUE
    /\ atClose = NoSnapshot
    /\ amap = <<>>
    /\ faults = 0
    /\ errs = 0
    /\ incs = [t \in Tasks |-> 0]
    /\ fatal = FALSE

\* One instance in one task-after-task session: no file-system or memory
\* failure, the instance is never destroyed
Init ==
    /\ \E heap \in HeapBytes :
          scope = [long |-> FALSE, stopAtFault |-> FALSE, reopen |-> FALSE, faults |-> FALSE, hints |-> "own", iterate |-> FALSE,
                   history |-> "full",
                   priors |-> {<<>>}, maxErrors |-> MaxErrorsSession,
                   maxFileSize |-> MaxFileSize, heap |-> heap]
    /\ revision \in {"2023", "2024"}
    /\ keyIsString = FALSE
    /\ valueIsString = TRUE
    /\ InitInstance

Next ==
    \/ DoLoadData("t1")
    \/ DoInsert("t1")
    \/ DoFindBlockOffset("t1")
    \/ DoFindValue("t1")
    \/ DoUpdate("t1")
    \/ DoUpdateCallback("t1")
    \/ DoUpsert("t1")
    \/ DoUpsertCallback("t1")
    \/ DoDelete("t1")
    \/ DoTruncate("t1")
    \/ DoClearErrors("t1")

Spec == Init /\ [][Next]_vars

\* One instance after another on the same file: the instance is destroyed
\* (which closes the file) and the next one loads the file again; calls pass
\* no block offset and the environment does not fail
InitReopen ==
    /\ \E heap \in HeapBytes :
          scope = [long |-> FALSE, stopAtFault |-> FALSE, reopen |-> TRUE, faults |-> FALSE, hints |-> "none", iterate |-> FALSE,
                   history |-> "op",
                   priors |-> {<<>>}, maxErrors |-> MaxErrorsSession,
                   maxFileSize |-> MaxFileSizeReopen, heap |-> heap]
    /\ revision \in {"2023", "2024"}
    /\ keyIsString = FALSE
    /\ valueIsString = TRUE
    /\ InitInstance

NextReopen ==
    \/ DoLoadData("t1")
    \/ DoInsert("t1")
    \/ DoUpdate("t1")
    \/ DoDelete("t1")
    \/ DoTruncate("t1")
    \/ Destroy("t1")

SpecReopen == InitReopen /\ [][NextReopen]_vars

\* One task iterates over the instance and calls it inside and outside the
\* iteration, passing the block offset of the pair the iterator yields; up to
\* MaxErrors calls return an error
InitIter ==
    /\ \E heap \in HeapBytes :
          scope = [long |-> FALSE, stopAtFault |-> FALSE, reopen |-> FALSE, faults |-> FALSE, hints |-> "node", iterate |-> TRUE,
                   history |-> "call", priors |-> {<<>>}, maxErrors |-> MaxErrors,
                   maxFileSize |-> MaxFileSizeIter, heap |-> heap]
    /\ revision \in {"2023", "2024"}
    /\ keyIsString = FALSE
    /\ valueIsString = TRUE
    /\ InitInstance

NextIter ==
    \/ DoLoadData("t1")
    \/ DoInsert("t1")
    \/ DoFindValue("t1")
    \/ DoUpdate("t1")
    \/ DoUpdateCallback("t1")
    \/ DoDelete("t1")
    \/ DoTruncate("t1")
    \/ Begin("t1")
    \/ IterNext("t1")
    \/ IterDrop("t1")

SpecIter == InitIter /\ [][NextIter]_vars

\* One task whose calls may be wrong: it inserts keys that are there, deletes and
\* looks up keys that are not, and passes the offset of any block it has heard
\* of; up to MaxErrors calls return an error. The environment does not fail.
InitErrors ==
    /\ \E heap \in HeapBytes :
          scope = [long |-> FALSE, stopAtFault |-> FALSE, reopen |-> FALSE, faults |-> FALSE, hints |-> "any", iterate |-> FALSE,
                   history |-> "all", priors |-> {<<>>}, maxErrors |-> MaxErrors,
                   maxFileSize |-> MaxFileSizeErrors, heap |-> heap]
    /\ revision \in {"2023", "2024"}
    /\ keyIsString = FALSE
    /\ valueIsString = TRUE
    /\ InitInstance

NextErrors ==
    \/ DoLoadData("t1")
    \/ DoInsert("t1")
    \/ DoFindBlockOffset("t1")
    \/ DoFindValue("t1")
    \/ DoUpdate("t1")
    \/ DoDelete("t1")
    \/ DoTruncate("t1")

SpecErrors == InitErrors /\ [][NextErrors]_vars

\* persistentKeyValuePairs<String, String> of the 2024 revision in one task:
\* one call may meet a failure of the file system or of the heap, up to
\* MaxErrorsFlags calls return an error, and the flags are cleared in between.
InitFlags ==
    /\ \E heap \in HeapBytes :
          scope = [long |-> FALSE, stopAtFault |-> FALSE, reopen |-> FALSE, faults |-> TRUE, hints |-> "own", iterate |-> FALSE,
                   history |-> "op", priors |-> {<<>>}, maxErrors |-> MaxErrorsFlags,
                   maxFileSize |-> MaxFileSizeFlags, heap |-> heap]
    /\ revision = "2024"
    /\ keyIsString = TRUE
    /\ valueIsString = TRUE
    /\ InitInstance

NextFlags ==
    \/ DoLoadData("t1")
    \/ DoInsert("t1")
    \/ DoFindValue("t1")
    \/ DoUpdate("t1")
    \/ DoUpsert("t1")
    \/ DoDelete("t1")
    \/ DoTruncate("t1")
    \/ DoClearErrors("t1")

SpecFlags == InitFlags /\ [][NextFlags]_vars

\* persistentKeyValuePairs<int, String> in one task, up to the first call that
\* meets a failure of the file system or of the heap (a seek, a read, a write
\* cut short, an allocation, an open); malloc returns memory that holds junk
InitFaults ==
    /\ scope = [long |-> FALSE, stopAtFault |-> TRUE, reopen |-> FALSE, faults |-> TRUE, hints |-> "own",
                iterate |-> FALSE, history |-> "full", priors |-> {<<>>},
                maxErrors |-> MaxErrors, maxFileSize |-> MaxFileSizeFaults,
                heap |-> JunkByte]
    /\ revision \in {"2023", "2024"}
    /\ keyIsString = FALSE
    /\ valueIsString = TRUE
    /\ InitInstance

NextFaults ==
    \/ DoLoadData("t1")
    \/ DoInsert("t1")
    \/ DoUpdate("t1")
    \/ DoDelete("t1")
    \/ DoTruncate("t1")

SpecFaults == InitFaults /\ [][NextFaults]_vars

\* persistentKeyValuePairs<int, String> in one task with a file of two blocks
\* that Insert and Delete have laid out, up to the first Update: its write of
\* a new block is cut short (and then whatever becomes of its roll-back)
InitRelocate ==
    /\ scope = [long |-> FALSE, stopAtFault |-> TRUE, reopen |-> FALSE, faults |-> FALSE,
                hints |-> "own", iterate |-> FALSE, history |-> "op", priors |-> {<<>>},
                maxErrors |-> MaxErrors, maxFileSize |-> MaxFileSizeRelocate,
                heap |-> JunkByte]
    /\ revision \in {"2023", "2024"}
    /\ keyIsString = FALSE
    /\ valueIsString = TRUE
    /\ InitInstance

\* Update (key, newValue, pBlockOffset) whose write of the new block is cut short
DoUpdateCut(t) ==
    \E key \in Keys, value \in Values, f \in BlockWriteFaults :
        \E hint \in Hints(t, key) :
            /\ Call(t, "Update", key, value, hint, f, Update(Cur, key, value, hint, f),
                    Update(Cur, key, value, hint, Plain(f)), Written1(key, value), TRUE)
            /\ iter' = iter

NextRelocate ==
    \/ DoLoadData("t1")
    \/ DoInsert("t1")
    \/ DoUpdateCut("t1")
    \/ DoDelete("t1")

SpecRelocate == InitRelocate /\ [][NextRelocate]_vars

\* The same with a file of one block: the call that meets the failure may
\* close the file, and the calls after it may return an error too, up to
\* MaxErrorsFatal calls in all
InitFatal ==
    /\ \E heap \in HeapBytes :
          scope = [long |-> FALSE, stopAtFault |-> FALSE, reopen |-> FALSE, faults |-> TRUE, hints |-> "own", iterate |-> FALSE,
                   history |-> "op", priors |-> {<<>>}, maxErrors |-> MaxErrorsFatal,
                   maxFileSize |-> MaxFileSizeFatal, heap |-> heap]
    /\ revision \in {"2023", "2024"}
    /\ keyIsString = FALSE
    /\ valueIsString = TRUE
    /\ InitInstance

NextFatal ==
    \/ DoLoadData("t1")
    \/ DoInsert("t1")
    \/ DoFindBlockOffset("t1")
    \/ DoFindValue("t1")
    \/ DoUpdate("t1")
    \/ DoUpsert("t1")
    \/ DoDelete("t1")
    \/ DoTruncate("t1")

SpecFatal == InitFatal /\ [][NextFatal]_vars

\* persistentKeyValuePairs<int, String> in one task that writes empty values
\* and values whose blocks are as long as a block can be, into a file that has
\* room for one such block and MaxSmallBlocks bytes more; up to MaxErrors calls
\* return an error, the environment does not fail
InitLimit ==
    /\ \E heap \in HeapBytes :
          scope = [long |-> TRUE, stopAtFault |-> FALSE, reopen |-> FALSE, faults |-> FALSE,
                   hints |-> "none", iterate |-> FALSE, history |-> "full",
                   priors |-> {<<>>}, maxErrors |-> MaxErrors,
                   maxFileSize |-> MaxBlockSize + MaxSmallBlocks, heap |-> heap]
    /\ revision \in {"2023", "2024"}
    /\ keyIsString = FALSE
    /\ valueIsString = TRUE
    /\ InitInstance

NextLimit ==
    \/ DoLoadData("t1")
    \/ DoInsert("t1")
    \/ DoUpdate("t1")

SpecLimit == InitLimit /\ [][NextLimit]_vars

----------------------------------------------------------------------------
\* Update (key, updateCallback) step by step, so that the calls of several
\* tasks interleave: the check of __dataFile__, Lock (), FindValue, the
\* callback, Update, Unlock (). local [t] is the variable value of the call of
\* task t; incs [t] counts the calls of t that returned OK.

CounterKey == Min(Keys)

\* the counter is created by the task that loaded the file
DoInsertCounter(t) ==
    \E value \in 0..MaxInitialValue :
        /\ \A u \in Tasks : pc[u] = "idle" /\ incs[u] = 0
        /\ Call(t, "Insert", CounterKey, value, NoHint, Quiet, Insert(Cur, CounterKey, value, Quiet),
                Insert(Cur, CounterKey, value, Quiet), Written1(CounterKey, value), TRUE)
        /\ iter' = iter

Step(t, from, to) ==
    /\ pc[t] = from
    /\ pc' = [pc EXCEPT ![t] = to]
    /\ UNCHANGED <<scope, revision, keyIsString, valueIsString, iter, last, allOk, atClose,
                   amap, faults, errs, fatal>>

\* if (!__dataFile__) return FILE_IO_ERROR: the call goes on with the file open
UcEnter(t) ==
    /\ Step(t, "idle", "Lock")
    /\ incs[t] < MaxIncrements
    /\ __dataFile__ /\ CounterKey \in DOMAIN kvp
    /\ UNCHANGED <<disk, fileExists, __dataFileName__, __dataFile__, __dataFileSize__, kvp,
                   __freeBlocksList__, __inIteration__, __errorFlags__, lastErrorCode,
                   semOwner, semCount, local, incs>>

\* Lock (): xSemaphoreTakeRecursive (__semaphore__, portMAX_DELAY)
UcLock(t) ==
    /\ Step(t, "Lock", "FindValue")
    /\ CanTake(t)
    /\ semOwner' = t
    /\ semCount' = semCount + 1
    /\ UNCHANGED <<disk, fileExists, __dataFileName__, __dataFile__, __dataFileSize__, kvp,
                   __freeBlocksList__, __inIteration__, __errorFlags__, lastErrorCode,
                   local, incs>>

\* e = FindValue (key, &value), which returns OK
UcFindValue(t) ==
    LET found == FindValue(Cur, CounterKey, 0, -1, Quiet)
    IN  /\ Step(t, "FindValue", "updateCallback")
        /\ CanTake(t)
        /\ found.ret = "OK"
        /\ Install(found.s)
        /\ local' = [local EXCEPT ![t] = found.out[1]]
        /\ UNCHANGED <<semOwner, semCount, incs>>

\* updateCallback (value) with [] (int& value) { value ++; }
UcCallback(t) ==
    /\ Step(t, "updateCallback", "Update")
    /\ local' = [local EXCEPT ![t] = updateCallback("increment", local[t])]
    /\ UNCHANGED <<disk, fileExists, __dataFileName__, __dataFile__, __dataFileSize__, kvp,
                   __freeBlocksList__, __inIteration__, __errorFlags__, lastErrorCode,
                   semOwner, semCount, incs>>

\* e = Update (key, value, pBlockOffset), which returns OK
UcUpdate(t) ==
    LET u == Update(Cur, CounterKey, local[t], NoHint, Quiet)
    IN  /\ Step(t, "Update", "Unlock")
        /\ CanTake(t)
        /\ u.ret = "OK"
        /\ Install(u.s)
        /\ UNCHANGED <<semOwner, semCount, local, incs>>

\* Unlock (); return OK
UcUnlock(t) ==
    /\ Step(t, "Unlock", "idle")
    /\ semCount' = semCount - 1
    /\ semOwner' = IF semCount = 1 THEN NoTask ELSE semOwner
    /\ incs' = [incs EXCEPT ![t] = @ + 1]
    /\ UNCHANGED <<disk, fileExists, __dataFileName__, __dataFile__, __dataFileSize__, kvp,
                   __freeBlocksList__, __inIteration__, __errorFlags__, lastErrorCode, local>>

UpdateCallbackStep(t) ==
    UcEnter(t) \/ UcLock(t) \/ UcFindValue(t) \/ UcCallback(t) \/ UcUpdate(t) \/ UcUnlock(t)

\* persistentKeyValuePairs<int, int>: one task loads the file and inserts the
\* counter, then every task increments it MaxIncrements times
InitTasks ==
    /\ \E heap \in HeapBytes :
          scope = [long |-> FALSE, stopAtFault |-> FALSE, reopen |-> FALSE, faults |-> FALSE, hints |-> "none", iterate |-> FALSE,
                   history |-> "op", priors |-> {0}, maxErrors |-> MaxErrorsSession,
                   maxFileSize |-> MaxFileSize, heap |-> heap]
    /\ revision = "2024"
    /\ keyIsString = FALSE
    /\ valueIsString = FALSE
    /\ InitInstance

NextTasks ==
    \/ DoLoadData("t1")
    \/ DoInsertCounter("t1")
    \/ \E t \in Tasks : UpdateCallbackStep(t)

SpecTasks == InitTasks /\ [][NextTasks]_vars

----------------------------------------------------------------------------
\* The caller's own read-modify-write (README, "update (2) the value with
\* calculation"): Lock (); e = FindValue (key, &oldValue); if (e == OK)
\* e = Update (key, f (oldValue)); Unlock (). FindValue and Update take the
\* recursive semaphore again and give it back before they return. local [t] is
\* oldValue; incs [t] counts the brackets of t that are through.

\* a faulty variant of CcLock: Lock () returns without the semaphore being free
CcLockNoWait(t) ==
    /\ Step(t, "idle", "locked")
    /\ incs[t] < MaxIncrements
    /\ __dataFile__ /\ CounterKey \in DOMAIN kvp
    /\ semOwner' = t
    /\ semCount' = semCount + 1
    /\ UNCHANGED <<disk, fileExists, __dataFileName__, __dataFile__, __dataFileSize__, kvp,
                   __freeBlocksList__, __inIteration__, __errorFlags__, lastErrorCode,
                   local, incs>>

\* pkvpA.Lock ()
CcLock(t) ==
    /\ Step(t, "idle", "locked")
    /\ incs[t] < MaxIncrements
    /\ __dataFile__ /\ CounterKey \in DOMAIN kvp
    /\ CanTake(t)
    /\ semOwner' = t
    /\ semCount' = semCount + 1
    /\ UNCHANGED <<disk, fileExists, __dataFileName__, __dataFile__, __dataFileSize__, kvp,
                   __freeBlocksList__, __inIteration__, __errorFlags__, lastErrorCode,
                   local, incs>>

\* e = pkvpA.FindValue (key, &oldValue); Update is skipped unless e == OK
CcFindValue(t) ==
    LET found == FindValue(Cur, CounterKey, 0, -1, Quiet)
    IN  /\ Step(t, "locked", IF found.ret = "OK" THEN "found" ELSE "unlock")
        /\ CanTake(t)
        /\ Install(found.s)
        /\ local' = [local EXCEPT ![t] = found.out[1]]
        /\ UNCHANGED <<semOwner, semCount, incs>>

\* e = pkvpA.Update (key, f (oldValue)), f being value + 1
CcUpdate(t) ==
    LET u == Update(Cur, CounterKey, updateCallback("increment", local[t]), NoHint, Quiet)
    IN  /\ Step(t, "found", "unlock")
        /\ CanTake(t)
        /\ Install(u.s)
        /\ UNCHANGED <<semOwner, semCount, local, incs>>

\* pkvpA.Unlock ()
CcUnlock(t) ==
    /\ Step(t, "unlock", "idle")
    /\ semCount' = semCount - 1
    /\ semOwner' = IF semCount = 1 THEN NoTask ELSE semOwner
    /\ incs' = [incs EXCEPT ![t] = @ + 1]
    /\ UNCHANGED <<disk, fileExists, __dataFileName__, __dataFile__, __dataFileSize__, kvp,
                   __freeBlocksList__, __inIteration__, __errorFlags__, lastErrorCode, local>>

\* a task decides to call Update (key, value) outside of any bracket
PlainEnter(t) ==
    \E value \in 0..MaxInitialValue :
        /\ Step(t, "idle", "plain")
        /\ __dataFile__ /\ CounterKey \in DOMAIN kvp
        /\ local' = [local EXCEPT ![t] = value]
        /\ UNCHANGED <<disk, fileExists, __dataFileName__, __dataFile__, __dataFileSize__,
                       kvp, __freeBlocksList__, __inIteration__, __errorFlags__,
                       lastErrorCode, semOwner, semCount, incs>>

\* that Update: its Lock (), its work and its Unlock ()
PlainUpdate(t) ==
    LET u == Update(Cur, CounterKey, local[t], NoHint, Quiet)
    IN  /\ Step(t, "plain", "idle")
        /\ CanTake(t)
        /\ Install(u.s)
        /\ UNCHANGED <<semOwner, semCount, local, incs>>

ComposedStep(t) ==
    CcLock(t) \/ CcFindValue(t) \/ CcUpdate(t) \/ CcUnlock(t) \/ PlainEnter(t) \/ PlainUpdate(t)

\* persistentKeyValuePairs<int, int> of the 2024 revision (the one that has
\* Lock () and Unlock ()): one task loads the file and inserts the key, then
\* every task runs the bracket MaxIncrements times and calls Update outside of
\* it in between
InitComposed ==
    /\ \E heap \in HeapBytes :
          scope = [long |-> FALSE, stopAtFault |-> FALSE, reopen |-> FALSE, faults |-> FALSE, hints |-> "none",
                   iterate |-> FALSE, history |-> "op", priors |-> {0},
                   maxErrors |-> MaxErrorsSession, maxFileSize |-> MaxFileSize,
                   heap |-> heap]
    /\ revision = "2024"
    /\ keyIsString = FALSE
    /\ valueIsString = FALSE
    /\ InitInstance

NextComposed ==
    \/ DoLoadData("t1")
    \/ DoInsertCounter("t1")
    \/ \E t \in Tasks : ComposedStep(t)

SpecComposed == InitComposed /\ [][NextComposed]_vars

----------------------------------------------------------------------------
\* the statuses that say the instance is in the wrong state for the call
WrongState == {"CANT_DO_IT_NOW", "NOT_WHILE_ITERATING"}

\* The calls as sequences of Lock (), nested calls, Unlock () and return, for
\* several tasks. A return path is a return statement of a public member
\* function: its line, the status it returns, whether Lock () (2023:
\* xSemaphoreTakeRecursive) was called before it, whether Unlock ()
\* (xSemaphoreGiveRecursive) is called right before it, whether a
\* __dataFile__.close () lies on the way to it, and the public member functions
\* called between the Lock () and it.
ReturnPath(op, line, ret, locked, unlocked, closes, calls) ==
    [op |-> op, line |-> line, ret |-> ret, locked |-> locked, unlocked |-> unlocked,
     closes |-> closes, calls |-> calls]

ReturnPaths2024 ==
    {ReturnPath("loadData", 360, "CANT_DO_IT_NOW", TRUE, TRUE, FALSE, <<>>),
     ReturnPath("loadData", 375, "FILE_IO_ERROR", TRUE, TRUE, TRUE, <<>>),
     ReturnPath("loadData", 384, "FILE_IO_ERROR", TRUE, TRUE, FALSE, <<>>),
     ReturnPath("loadData", 400, "e", TRUE, TRUE, TRUE, <<>>),
     ReturnPath("loadData", 409, "e", TRUE, TRUE, TRUE, <<>>),
     ReturnPath("loadData", 419, "e", TRUE, TRUE, TRUE, <<>>),
     ReturnPath("loadData", 428, "OK", TRUE, TRUE, FALSE, <<>>),
     ReturnPath("Insert", 465, "FILE_IO_ERROR", FALSE, FALSE, FALSE, <<>>),
     ReturnPath("Insert", 472, "BAD_ALLOC", FALSE, FALSE, FALSE, <<>>),
     ReturnPath("Insert", 479, "BAD_ALLOC", FALSE, FALSE, FALSE, <<>>),
     ReturnPath("Insert", 487, "CANT_DO_IT_NOW", TRUE, TRUE, FALSE, <<>>),
     ReturnPath("Insert", 512, "BAD_ALLOC", TRUE, TRUE, FALSE, <<>>),
     ReturnPath("Insert", 541, "FILE_IO_ERROR", TRUE, TRUE, FALSE, <<>>),
     ReturnPath("Insert", 551, "e", TRUE, TRUE, FALSE, <<>>),
     ReturnPath("Insert", 568, "e", TRUE, TRUE, TRUE, <<>>),
     ReturnPath("Insert", 574, "BAD_ALLOC", TRUE, TRUE, FALSE, <<>>),
     ReturnPath("Insert", 619, "e", TRUE, TRUE, TRUE, <<>>),
     ReturnPath("Insert", 625, "FILE_IO_ERROR", TRUE, TRUE, FALSE, <<>>),
     ReturnPath("Insert", 642, "OK", TRUE, TRUE, FALSE, <<>>),
     ReturnPath("FindBlockOffset", 656, "BAD_ALLOC", FALSE, FALSE, FALSE, <<>>),
     ReturnPath("FindBlockOffset", 666, "OK", TRUE, TRUE, FALSE, <<>>),
     ReturnPath("FindBlockOffset", 673, "NOT_FOUND", TRUE, TRUE, FALSE, <<>>),
     ReturnPath("FindBlockOffset", 678, "e", TRUE, TRUE, FALSE, <<>>),
     ReturnPath("FindValue", 693, "FILE_IO_ERROR", FALSE, FALSE, FALSE, <<>>),
     ReturnPath("FindValue", 700, "BAD_ALLOC", FALSE, FALSE, FALSE, <<>>),
     ReturnPath("FindValue", 716, "NOT_FOUND", TRUE, TRUE, FALSE, <<>>),
     ReturnPath("FindValue", 721, "e", TRUE, TRUE, FALSE, <<>>),
     ReturnPath("FindValue", 732, "OK", TRUE, TRUE, FALSE, <<>>),
     ReturnPath("FindValue", 737, "DATA_CHANGED", TRUE, TRUE, FALSE, <<>>),
     ReturnPath("FindValue", 743, "FILE_IO_ERROR", TRUE, TRUE, FALSE, <<>>),
     ReturnPath("Update", 757, "FILE_IO_ERROR", FALSE, FALSE, FALSE, <<>>),
     ReturnPath("Update", 764, "BAD_ALLOC", FALSE, FALSE, FALSE, <<>>),
     ReturnPath("Update", 771, "BAD_ALLOC", FALSE, FALSE, FALSE, <<>>),
     ReturnPath("Update", 786, "NOT_FOUND", TRUE, TRUE, FALSE, <<>>),
     ReturnPath("Update", 792, "e", TRUE, TRUE, FALSE, <<>>),
     ReturnPath("Update", 810, "FILE_IO_ERROR", TRUE, TRUE, FALSE, <<>>),
     ReturnPath("Update", 816, "DATA_CHANGED", TRUE, TRUE, FALSE, <<>>),
     ReturnPath("Update", 842, "BAD_ALLOC", TRUE, TRUE, FALSE, <<>>),
     ReturnPath("Update", 862, "FILE_IO_ERROR", TRUE, TRUE, FALSE, <<>>),
     ReturnPath("Update", 878, "FILE_IO_ERROR", TRUE, TRUE, TRUE, <<>>),
     ReturnPath("Update", 884, "OK", TRUE, TRUE, FALSE, <<>>),
     ReturnPath("Update", 916, "FILE_IO_ERROR", TRUE, TRUE, FALSE, <<>>),
     ReturnPath("Update", 926, "BAD_ALLOC", TRUE, TRUE, FALSE, <<>>),
     ReturnPath("Update", 965, "FILE_IO_ERROR", TRUE, TRUE, TRUE, <<>>),
     ReturnPath("Update", 983, "FILE_IO_ERROR", TRUE, TRUE, TRUE, <<>>),
     ReturnPath("Update", 991, "FILE_IO_ERROR", TRUE, TRUE, TRUE, <<>>),
     ReturnPath("Update", 1003, "OK", TRUE, TRUE, FALSE, <<>>),
     ReturnPath("UpdateCallback", 1020, "FILE_IO_ERROR", FALSE, FALSE, FALSE, <<>>),
     ReturnPath("UpdateCallback", 1027, "BAD_ALLOC", FALSE, FALSE, FALSE, <<>>),
     ReturnPath("UpdateCallback", 1038, "e", TRUE, TRUE, FALSE, <<"FindValue">>),
     ReturnPath("UpdateCallback", 1048, "e", TRUE, TRUE, FALSE, <<"FindValue", "Update">>),
     ReturnPath("UpdateCallback", 1052, "OK", TRUE, TRUE, FALSE, <<"FindValue", "Update">>),
     ReturnPath("Upsert", 1065, "FILE_IO_ERROR", FALSE, FALSE, FALSE, <<>>),
     ReturnPath("Upsert", 1072, "BAD_ALLOC", FALSE, FALSE, FALSE, <<>>),
     ReturnPath("Upsert", 1079, "BAD_ALLOC", FALSE, FALSE, FALSE, <<>>),
     ReturnPath("Upsert", 1093, "e", TRUE, TRUE, FALSE, <<"Update">>),
     ReturnPath("Upsert", 1093, "e", TRUE, TRUE, FALSE, <<"Update", "Insert">>),
     ReturnPath("UpsertCallback", 1105, "FILE_IO_ERROR", FALSE, FALSE, FALSE, <<>>),
     ReturnPath("UpsertCallback", 1112, "BAD_ALLOC", FALSE, FALSE, FALSE, <<>>),
     ReturnPath("UpsertCallback", 1119, "BAD_ALLOC", FALSE, FALSE, FALSE, <<>>),
     ReturnPath("UpsertCallback", 1133, "e", TRUE, TRUE, FALSE, <<"UpdateCallback">>),
     ReturnPath("UpsertCallback", 1133, "e", TRUE, TRUE, FALSE, <<"UpdateCallback", "Insert">>),
     ReturnPath("Delete", 1146, "FILE_IO_ERROR", FALSE, FALSE, FALSE, <<>>),
     ReturnPath("Delete", 1153, "BAD_ALLOC", FALSE, FALSE, FALSE, <<>>),
     ReturnPath("Delete", 1162, "CANT_DO_IT_NOW", TRUE, TRUE, FALSE, <<>>),
     ReturnPath("Delete", 1172, "e", TRUE, TRUE, FALSE, <<"FindBlockOffset">>),
     ReturnPath("Delete", 1182, "FILE_IO_ERROR", TRUE, TRUE, FALSE, <<"FindBlockOffset">>),
     ReturnPath("Delete", 1189, "FILE_IO_ERROR", TRUE, TRUE, FALSE, <<"FindBlockOffset">>),
     ReturnPath("Delete", 1195, "DATA_CHANGED", TRUE, TRUE, FALSE, <<"FindBlockOffset">>),
     ReturnPath("Delete", 1206, "e", TRUE, TRUE, FALSE, <<"FindBlockOffset">>),
     ReturnPath("Delete", 1224, "FILE_IO_ERROR", TRUE, TRUE, TRUE, <<"FindBlockOffset">>),
     ReturnPath("Delete", 1236, "FILE_IO_ERROR", TRUE, TRUE, TRUE, <<"FindBlockOffset">>),
     ReturnPath("Delete", 1250, "OK", TRUE, TRUE, FALSE, <<"FindBlockOffset">>),
     ReturnPath("Truncate", 1266, "CANT_DO_IT_NOW", TRUE, TRUE, FALSE, <<>>),
     ReturnPath("Truncate", 1278, "FILE_IO_ERROR", TRUE, TRUE, TRUE, <<>>),
     ReturnPath("Truncate", 1286, "FILE_IO_ERROR", TRUE, TRUE, FALSE, <<>>),
     ReturnPath("Truncate", 1294, "OK", TRUE, TRUE, FALSE, <<>>)}

ReturnPaths2023 ==
    {ReturnPath("loadData", 172, "FILE_IO_ERROR", TRUE, TRUE, TRUE, <<>>),
     ReturnPath("loadData", 181, "FILE_IO_ERROR", TRUE, TRUE, FALSE, <<>>),
     ReturnPath("loadData", 195, "FILE_IO_ERROR", TRUE, TRUE, FALSE, <<>>),
     ReturnPath("loadData", 205, "e", TRUE, TRUE, FALSE, <<>>),
     ReturnPath("loadData", 215, "e", TRUE, TRUE, FALSE, <<>>),
     ReturnPath("loadData", 223, "OK", TRUE, TRUE, FALSE, <<>>),
     ReturnPath("Insert", 243, "FILE_IO_ERROR", FALSE, FALSE, FALSE, <<>>),
     ReturnPath("Insert", 249, "BAD_ALLOC", FALSE, FALSE, FALSE, <<>>),
     ReturnPath("Insert", 254, "BAD_ALLOC", FALSE, FALSE, FALSE, <<>>),
     ReturnPath("Insert", 261, "NOT_WHILE_ITERATING", TRUE, TRUE, FALSE, <<>>),
     ReturnPath("Insert", 284, "BAD_ALLOC", TRUE, TRUE, FALSE, <<>>),
     ReturnPath("Insert", 310, "FILE_IO_ERROR", TRUE, TRUE, FALSE, <<>>),
     ReturnPath("Insert", 318, "e", TRUE, TRUE, FALSE, <<>>),
     ReturnPath("Insert", 326, "BAD_ALLOC", TRUE, TRUE, FALSE, <<>>),
     ReturnPath("Insert", 363, "FILE_IO_ERROR", TRUE, TRUE, TRUE, <<>>),
     ReturnPath("Insert", 376, "OK", TRUE, TRUE, FALSE, <<>>),
     ReturnPath("FindBlockOffset", 388, "BAD_ALLOC", FALSE, FALSE, FALSE, <<>>),
     ReturnPath("FindBlockOffset", 397, "OK", TRUE, TRUE, FALSE, <<>>),
     ReturnPath("FindBlockOffset", 402, "NOT_FOUND", TRUE, TRUE, FALSE, <<>>),
     ReturnPath("FindBlockOffset", 407, "e", TRUE, TRUE, FALSE, <<>>),
     ReturnPath("FindValue", 418, "FILE_IO_ERROR", FALSE, FALSE, FALSE, <<>>),
     ReturnPath("FindValue", 425, "BAD_ALLOC", FALSE, FALSE, FALSE, <<>>),
     ReturnPath("FindValue", 437, "NOT_FOUND", TRUE, TRUE, FALSE, <<>>),
     ReturnPath("FindValue", 442, "e", TRUE, TRUE, FALSE, <<>>),
     ReturnPath("FindValue", 452, "OK", TRUE, TRUE, FALSE, <<>>),
     ReturnPath("FindValue", 456, "DATA_CHANGED", TRUE, TRUE, FALSE, <<>>),
     ReturnPath("FindValue", 462, "e", TRUE, TRUE, FALSE, <<>>),
     ReturnPath("Update", 472, "FILE_IO_ERROR", FALSE, FALSE, FALSE, <<>>),
     ReturnPath("Update", 477, "BAD_ALLOC", FALSE, FALSE, FALSE, <<>>),
     ReturnPath("Update", 482, "BAD_ALLOC", FALSE, FALSE, FALSE, <<>>),
     ReturnPath("Update", 494, "NOT_FOUND", TRUE, TRUE, FALSE, <<>>),
     ReturnPath("Update", 498, "e", TRUE, TRUE, FALSE, <<>>),
     ReturnPath("Update", 511, "e", TRUE, TRUE, FALSE, <<>>),
     ReturnPath("Update", 516, "DATA_CHANGED", TRUE, TRUE, FALSE, <<>>),
     ReturnPath("Update", 539, "BAD_ALLOC", TRUE, TRUE, FALSE, <<>>),
     ReturnPath("Update", 556, "FILE_IO_ERROR", TRUE, TRUE, FALSE, <<>>),
     ReturnPath("Update", 570, "FILE_IO_ERROR", TRUE, TRUE, TRUE, <<>>),
     ReturnPath("Update", 601, "FILE_IO_ERROR", TRUE, TRUE, FALSE, <<>>),
     ReturnPath("Update", 609, "BAD_ALLOC", TRUE, TRUE, FALSE, <<>>),
     ReturnPath("Update", 643, "FILE_IO_ERROR", TRUE, TRUE, TRUE, <<>>),
     ReturnPath("Update", 658, "FILE_IO_ERROR", TRUE, TRUE, TRUE, <<>>),
     ReturnPath("Update", 665, "FILE_IO_ERROR", TRUE, TRUE, TRUE, <<>>),
     ReturnPath("Update", 680, "OK", TRUE, TRUE, FALSE, <<>>),
     ReturnPath("Delete", 689, "FILE_IO_ERROR", FALSE, FALSE, FALSE, <<>>),
     ReturnPath("Delete", 694, "BAD_ALLOC", FALSE, FALSE, FALSE, <<>>),
     ReturnPath("Delete", 701, "NOT_WHILE_ITERATING", TRUE, TRUE, FALSE, <<>>),
     ReturnPath("Delete", 710, "e", TRUE, TRUE, FALSE, <<"FindBlockOffset">>),
     ReturnPath("Delete", 717, "FILE_IO_ERROR", TRUE, TRUE, FALSE, <<"FindBlockOffset">>),
     ReturnPath("Delete", 723, "FILE_IO_ERROR", TRUE, TRUE, FALSE, <<"FindBlockOffset">>),
     ReturnPath("Delete", 728, "DATA_CHANGED", TRUE, TRUE, FALSE, <<"FindBlockOffset">>),
     ReturnPath("Delete", 736, "e", TRUE, TRUE, FALSE, <<"FindBlockOffset">>),
     ReturnPath("Delete", 748, "FILE_IO_ERROR", TRUE, TRUE, TRUE, <<"FindBlockOffset">>),
     ReturnPath("Delete", 757, "FILE_IO_ERROR", TRUE, TRUE, TRUE, <<"FindBlockOffset">>),
     ReturnPath("Delete", 771, "OK", TRUE, TRUE, FALSE, <<"FindBlockOffset">>),
     ReturnPath("Truncate", 784, "NOT_WHILE_ITERATING", TRUE, TRUE, FALSE, <<>>),
     ReturnPath("Truncate", 795, "FILE_IO_ERROR", TRUE, TRUE, TRUE, <<>>),
     ReturnPath("Truncate", 802, "FILE_IO_ERROR", TRUE, TRUE, FALSE, <<>>),
     ReturnPath("Truncate", 810, "OK", TRUE, TRUE, FALSE, <<>>)}

ReturnPaths == IF revision = "2024" THEN ReturnPaths2024 ELSE ReturnPaths2023
PublicOps == {p.op : p \in ReturnPaths}
NoPath == ReturnPath("", 0, "", FALSE, FALSE, FALSE, <<>>)

\* __dataFile__ after the call has gone down path p: loadData and Truncate
\* leave the file open or closed, a roll-back that fails closes it
FileAfter(p) ==
    IF p.op \in {"loadData", "Truncate"} /\ p.ret \notin WrongState
    THEN {p.line \in IF revision = "2024" THEN {428, 1294} ELSE {195, 205, 215, 223, 810}}
    ELSE IF p.closes THEN {__dataFile__, FALSE}
    ELSE {__dataFile__}

\* local [t] is the stack of task t: a frame for every call that has not
\* returned and for every Lock () of the caller that has no Unlock () yet
\* e is the status the last nested call of the frame returned
Frame(op, at, path) == [op |-> op, at |-> at, path |-> path, next |-> 1, e |-> ""]
Returned(f) == IF f.path.ret = "e" /\ f.e # "" THEN f.e ELSE f.path.ret
\* the stack after its top frame has returned status ret to the frame below
ReturnTo(t, ret) ==
    LET rest == SubSeq(local[t], 1, Len(local[t]) - 1)
    IN  IF Len(rest) > 0 /\ rest[Len(rest)].op # "Lock"
        THEN [rest EXCEPT ![Len(rest)].e = ret]
        ELSE rest
Top(t) == local[t][Len(local[t])]
Pop(t) == SubSeq(local[t], 1, Len(local[t]) - 1)
SetTop(t, f) == [local EXCEPT ![t] = Append(Pop(t), f)]
InCall(t) == Len(local[t]) > 0 /\ Top(t).op # "Lock"
CallerLocks(t) == Cardinality({i \in DOMAIN local[t] : local[t][i].op = "Lock"})
LiveIterators(t) == Cardinality({i \in DOMAIN iter[t] : iter[t][i] # 0})
\* the iterators of all tasks, those of end () too
Iterators == Len(iter["t1"]) + Len(iter["t2"])
Held(t) == IF semOwner = t THEN semCount ELSE 0

LkFrame ==
    UNCHANGED <<scope, revision, keyIsString, valueIsString, disk, fileExists, __dataFileName__,
                __dataFileSize__, kvp, __freeBlocksList__, __errorFlags__, lastErrorCode,
                allOk, atClose, amap, faults, errs, incs, fatal>>
LkPc(t) == pc' = [pc EXCEPT ![t] = IF Len(local'[t]) > 0 /\ local'[t][Len(local'[t])].op # "Lock"
                                    THEN "call" ELSE "idle"]
\* a faulty variant of Take: a semaphore that is not recursive
TakeNotRecursive(t) == semOwner = NoTask /\ semOwner' = t /\ semCount' = semCount + 1
\* xSemaphoreTakeRecursive (__semaphore__, portMAX_DELAY) and xSemaphoreGiveRecursive
Take(t) == CanTake(t) /\ semOwner' = t /\ semCount' = semCount + 1
Give(t) == semCount' = semCount - 1 /\ semOwner' = IF semCount = 1 THEN NoTask ELSE semOwner

\* task t calls a public member function
LkCall(t) ==
    \E op \in PublicOps :
        /\ ~InCall(t)
        /\ errs < scope.maxErrors
        /\ local' = [local EXCEPT ![t] = Append(@, Frame(op, "enter", NoPath))]
        /\ LkPc(t)
        /\ errs' = errs + 1
        /\ UNCHANGED <<__dataFile__, __inIteration__, semOwner, semCount, iter, last>>
        /\ UNCHANGED <<scope, revision, keyIsString, valueIsString, disk, fileExists,
                       __dataFileName__, __dataFileSize__, kvp, __freeBlocksList__,
                       __errorFlags__, lastErrorCode, allOk, atClose, amap, faults, incs,
                       fatal>>

\* the call returns from one of its tests before Lock (): if (!__dataFile__),
\* or a String argument that could not be constructed (2024 tests the address
\* of the argument, which is never null)
LkReturnEarly(t) ==
    \E p \in ReturnPaths :
        /\ InCall(t) /\ Top(t).at = "enter" /\ p.op = Top(t).op
        /\ ~p.locked
        /\ p.ret = "FILE_IO_ERROR" => ~__dataFile__
        /\ p.ret = "BAD_ALLOC" => revision = "2023"
        /\ local' = [local EXCEPT ![t] = ReturnTo(t, p.ret)]
        /\ LkPc(t)
        /\ last' = [NoCall EXCEPT !.op = p.op, !.ret = p.ret]
        /\ UNCHANGED <<__dataFile__, __inIteration__, semOwner, semCount, iter, errs>>
        /\ LkFrame

\* the call passes its tests and stands at its Lock ()
LkReachLock(t) ==
    /\ InCall(t) /\ Top(t).at = "enter"
    /\ (\E p \in ReturnPaths : p.op = Top(t).op /\ ~p.locked /\ p.ret = "FILE_IO_ERROR")
          => __dataFile__
    /\ local' = SetTop(t, [Top(t) EXCEPT !.at = "Lock"])
    /\ UNCHANGED <<__dataFile__, __inIteration__, semOwner, semCount, iter, pc, last, errs>>
    /\ LkFrame

\* Lock () of the call: the task waits until it can take the semaphore
LkTake(t) ==
    /\ InCall(t) /\ Top(t).at = "Lock"
    /\ Take(t)
    /\ local' = SetTop(t, [Top(t) EXCEPT !.at = "locked"])
    /\ UNCHANGED <<__dataFile__, __inIteration__, iter, pc, last, errs>>
    /\ LkFrame

\* the call goes down one of its paths after Lock (): if (__inIteration__)
\* and, in loadData of the 2024 revision, if (__dataFile__) come first
LkChoose(t) ==
    \E p \in ReturnPaths :
        /\ InCall(t) /\ Top(t).at = "locked"
        /\ p.op = Top(t).op /\ p.locked
        /\ IF p.op = "loadData"
           THEN p.ret \in WrongState <=> (revision = "2024" /\ __dataFile__)
           ELSE IF p.op \in {"Insert", "Delete", "Truncate"}
           THEN p.ret \in WrongState <=> __inIteration__ # 0
           ELSE TRUE
        /\ local' = SetTop(t, [Top(t) EXCEPT !.at = "calls", !.path = p])
        /\ UNCHANGED <<__dataFile__, __inIteration__, semOwner, semCount, iter, pc, last,
                       errs>>
        /\ LkFrame

\* the call calls the next public member function on its path
LkNested(t) ==
    /\ InCall(t) /\ Top(t).at = "calls" /\ Top(t).next <= Len(Top(t).path.calls)
    /\ local' = [local EXCEPT ![t] =
                     Append(Append(Pop(t), [Top(t) EXCEPT !.next = @ + 1]),
                            Frame(Top(t).path.calls[Top(t).next], "enter", NoPath))]
    /\ UNCHANGED <<__dataFile__, __inIteration__, semOwner, semCount, iter, pc, last, errs>>
    /\ LkFrame

\* a faulty variant of LkLeave: a path that returns an error has no Unlock ()
LkLeaveHoldingOnError(t) ==
    /\ InCall(t) /\ Top(t).at = "calls" /\ Top(t).next > Len(Top(t).path.calls)
    /\ IF Top(t).path.unlocked /\ Top(t).path.ret = "OK" THEN Give(t)
       ELSE UNCHANGED <<semOwner, semCount>>
    /\ __dataFile__' \in FileAfter(Top(t).path)
    /\ local' = [local EXCEPT ![t] = ReturnTo(t, Returned(Top(t)))]
    /\ LkPc(t)
    /\ last' = [NoCall EXCEPT !.op = Top(t).op, !.ret = Returned(Top(t))]
    /\ UNCHANGED <<__inIteration__, iter, errs>>
    /\ LkFrame

\* the end of the path: Unlock () if the path has one, and return
LkLeave(t) ==
    /\ InCall(t) /\ Top(t).at = "calls" /\ Top(t).next > Len(Top(t).path.calls)
    /\ IF Top(t).path.unlocked THEN Give(t) ELSE UNCHANGED <<semOwner, semCount>>
    /\ __dataFile__' \in FileAfter(Top(t).path)
    /\ local' = [local EXCEPT ![t] = ReturnTo(t, Returned(Top(t)))]
    /\ LkPc(t)
    /\ last' = [NoCall EXCEPT !.op = Top(t).op, !.ret = Returned(Top(t))]
    /\ UNCHANGED <<__inIteration__, iter, errs>>
    /\ LkFrame

\* begin () (2024 also first_element () and last_element ()): Lock (),
\* __inIteration__ ++; the iterator is cursor 1 of the task
LkBegin(t) ==
    /\ ~InCall(t)
    /\ Iterators < MaxLiveIterators
    /\ Take(t)
    /\ __inIteration__' = __inIteration__ + 1
    /\ iter' = [iter EXCEPT ![t] = Append(@, 1)]
    /\ last' = [NoCall EXCEPT !.op = "begin"]
    /\ UNCHANGED <<__dataFile__, pc, local, errs>>
    /\ LkFrame
LkFirstElement(t) ==
    /\ revision = "2024"
    /\ ~InCall(t)
    /\ Iterators < MaxLiveIterators
    /\ Take(t)
    /\ __inIteration__' = __inIteration__ + 1
    /\ iter' = [iter EXCEPT ![t] = Append(@, 1)]
    /\ last' = [NoCall EXCEPT !.op = "first_element"]
    /\ UNCHANGED <<__dataFile__, pc, local, errs>>
    /\ LkFrame
LkLastElement(t) ==
    /\ revision = "2024"
    /\ ~InCall(t)
    /\ Iterators < MaxLiveIterators
    /\ Take(t)
    /\ __inIteration__' = __inIteration__ + 1
    /\ iter' = [iter EXCEPT ![t] = Append(@, 1)]
    /\ last' = [NoCall EXCEPT !.op = "last_element"]
    /\ UNCHANGED <<__dataFile__, pc, local, errs>>
    /\ LkFrame

\* end (): an iterator without an instance (cursor 0), no Lock ()
LkEnd(t) ==
    /\ ~InCall(t)
    /\ Iterators < MaxLiveIterators
    /\ iter' = [iter EXCEPT ![t] = Append(@, 0)]
    /\ last' = [NoCall EXCEPT !.op = "end"]
    /\ UNCHANGED <<__dataFile__, __inIteration__, semOwner, semCount, pc, local, errs>>
    /\ LkFrame

\* a faulty variant of LkDrop: the destructor does not look at __pkvp__
LkDropCounting(t) ==
    /\ ~InCall(t) /\ Len(iter[t]) > 0 /\ semOwner = t
    /\ __inIteration__' = __inIteration__ - 1 /\ Give(t)
    /\ iter' = [iter EXCEPT ![t] = SubSeq(@, 1, Len(@) - 1)]
    /\ last' = [NoCall EXCEPT !.op = "~Iterator"]
    /\ UNCHANGED <<__dataFile__, pc, local, errs>>
    /\ LkFrame

\* ~Iterator () of the iterator task t got last: if (__pkvp__)
\* { __inIteration__ --; Unlock (); }
LkDrop(t) ==
    /\ ~InCall(t) /\ Len(iter[t]) > 0
    /\ IF iter[t][Len(iter[t])] # 0
       THEN __inIteration__' = __inIteration__ - 1 /\ Give(t)
       ELSE UNCHANGED <<__inIteration__, semOwner, semCount>>
    /\ iter' = [iter EXCEPT ![t] = SubSeq(@, 1, Len(@) - 1)]
    /\ last' = [NoCall EXCEPT !.op = "~Iterator"]
    /\ UNCHANGED <<__dataFile__, pc, local, errs>>
    /\ LkFrame

\* Lock () called by the task itself (2024)
LkLock(t) ==
    /\ revision = "2024"
    /\ ~InCall(t) /\ CallerLocks(t) < MaxCallerLocks
    /\ Take(t)
    /\ local' = [local EXCEPT ![t] = Append(@, Frame("Lock", "held", NoPath))]
    /\ last' = [NoCall EXCEPT !.op = "Lock"]
    /\ UNCHANGED <<__dataFile__, __inIteration__, iter, pc, errs>>
    /\ LkFrame

\* the Unlock () that matches it
LkUnlock(t) ==
    /\ Len(local[t]) > 0 /\ Top(t).op = "Lock"
    /\ Give(t)
    /\ local' = [local EXCEPT ![t] = Pop(t)]
    /\ last' = [NoCall EXCEPT !.op = "Unlock"]
    /\ UNCHANGED <<__dataFile__, __inIteration__, iter, pc, errs>>
    /\ LkFrame

\* Two tasks that call the public member functions of one instance,
\* MaxCalls calls in all, iterate over it and lock it. The instance is new,
\* or loadData has made its empty data file and left it open.
InitLocks ==
    /\ scope = [long |-> FALSE, stopAtFault |-> FALSE, reopen |-> FALSE, faults |-> TRUE,
                hints |-> "none", iterate |-> TRUE, history |-> "op", priors |-> {<<>>},
                maxErrors |-> MaxCalls, maxFileSize |-> 0, heap |-> 0]
    /\ revision \in {"2023", "2024"}
    /\ keyIsString = TRUE
    /\ valueIsString = TRUE
    /\ __dataFile__ \in BOOLEAN
    /\ fileExists = __dataFile__
    /\ __dataFileName__ = IF __dataFile__ THEN DataFileName ELSE ""
    /\ disk = <<>> /\ __dataFileSize__ = 0 /\ kvp = <<>> /\ __freeBlocksList__ = <<>>
    /\ __inIteration__ = 0 /\ __errorFlags__ = {} /\ lastErrorCode = "OK"
    /\ semOwner = NoTask /\ semCount = 0
    /\ iter = [t \in Tasks |-> <<>>]
    /\ pc = [t \in Tasks |-> "idle"]
    /\ local = [t \in Tasks |-> <<>>]
    /\ last = NoCall /\ allOk = TRUE /\ atClose = NoSnapshot /\ amap = <<>>
    /\ faults = 0 /\ errs = 0 /\ incs = [t \in Tasks |-> 0] /\ fatal = FALSE

NextLocks ==
    \E t \in Tasks :
        \/ LkCall(t) \/ LkReturnEarly(t) \/ LkReachLock(t) \/ LkTake(t) \/ LkChoose(t)
        \/ LkNested(t) \/ LkLeave(t)
        \/ LkBegin(t) \/ LkFirstElement(t) \/ LkLastElement(t) \/ LkEnd(t) \/ LkDrop(t)
        \/ LkLock(t) \/ LkUnlock(t)

SpecLocks == InitLocks /\ [][NextLocks]_vars

\* The same under a fair scheduler. A task that is inside a call goes on
\* running; a task that waits in xSemaphoreTakeRecursive (portMAX_DELAY) is
\* queued on the semaphore and gets it when it is given, however often the
\* other task takes it again; and, as the users of the instance promise, every
\* task is again and again without a live iterator and without a Lock () of
\* its own that has no Unlock (). The iterators of end (), which take no
\* semaphore, are left out.
LkRun(t) ==
    LkReturnEarly(t) \/ LkReachLock(t) \/ LkChoose(t) \/ LkNested(t) \/ LkLeave(t)
NextLocksFair ==
    \E t \in Tasks :
        \/ LkCall(t) \/ LkReturnEarly(t) \/ LkReachLock(t) \/ LkTake(t) \/ LkChoose(t)
        \/ LkNested(t) \/ LkLeave(t)
        \/ LkBegin(t) \/ LkFirstElement(t) \/ LkLastElement(t) \/ LkDrop(t)
        \/ LkLock(t) \/ LkUnlock(t)
SpecLocksFair ==
    /\ InitLocks /\ [][NextLocksFair]_vars
    /\ \A t \in Tasks : WF_vars(LkRun(t)) /\ SF_vars(LkTake(t))
    /\ \A t \in Tasks : []<>(LiveIterators(t) = 0 /\ CallerLocks(t) = 0)

----------------------------------------------------------------------------
\* One instance with String values whose FindValue is handed a value
\* variable that is empty or holds a character already
InitOutput ==
    /\ scope = [long |-> FALSE, stopAtFault |-> FALSE, reopen |-> FALSE, faults |-> FALSE,
                hints |-> "own", iterate |-> FALSE, history |-> "op",
                priors |-> {<<>>, <<ValueChar>>}, maxErrors |-> MaxErrors,
                maxFileSize |-> MaxFileSize, heap |-> 0]
    /\ revision \in {"2023", "2024"}
    /\ keyIsString = FALSE
    /\ valueIsString = TRUE
    /\ InitInstance

NextOutput ==
    \/ DoLoadData("t1")
    \/ DoInsert("t1")
    \/ DoFindValue("t1")
    \/ DoDelete("t1")

SpecOutput == InitOutput /\ [][NextOutput]_vars

----------------------------------------------------------------------------
\* loadData on a data file of any content: the bytes of the file are taken
\* from ScanBytes, which has the bytes of the tags 0, 4, -4, -32768 and of
\* tags that point past the end of the file
ScanBytes == {0, 4, 97, 128, 252, 255}
Files == UNION {[1..n -> ScanBytes] : n \in 0..MaxScanFileSize}

\* the offsets at which the scan of loadData, from blockOffset on, gets through
\* the body of its loop and comes to blockOffset += blockSize
RECURSIVE scanned(_, _, _)
scanned(s, blockOffset, f) ==
    IF blockOffset < 0 \/ blockOffset >= s.fsize THEN {}
    ELSE LET b == __readBlock__(s.disk, blockOffset, TRUE, <<>>, f)
             ins == MapInsert(s.kvp, b.key, blockOffset, f)
             neg == I16(0 - b.blockSize)
         IN  IF b.e # "OK" THEN {}
             ELSE IF b.blockSize > 0
             THEN IF ins.e # "OK" THEN {}
                  ELSE {blockOffset}
                       \cup scanned([s EXCEPT !.kvp = ins.map], blockOffset + b.blockSize, f)
             ELSE IF ~f.pushBack THEN {}
             ELSE IF neg = 0 THEN {blockOffset}
             ELSE {blockOffset} \cup scanned(s, blockOffset + neg, f)

\* blockSize as the scan adds it to blockOffset after the block at blockOffset
scanStep(s, blockOffset, f) ==
    LET b == __readBlock__(s.disk, blockOffset, TRUE, <<>>, f)
    IN  IF b.blockSize > 0 THEN b.blockSize ELSE I16(0 - b.blockSize)

InitScan ==
    /\ scope = [long |-> FALSE, stopAtFault |-> FALSE, reopen |-> FALSE, faults |-> FALSE,
                hints |-> "none", iterate |-> FALSE, history |-> "op", priors |-> {<<>>},
                maxErrors |-> MaxErrors, maxFileSize |-> MaxScanFileSize, heap |-> 0]
    /\ revision \in {"2023", "2024"}
    /\ keyIsString = TRUE
    /\ valueIsString = TRUE
    /\ disk \in Files
    /\ fileExists = TRUE
    /\ __dataFileName__ = "" /\ __dataFile__ = FALSE /\ __dataFileSize__ = 0
    /\ kvp = <<>> /\ __freeBlocksList__ = <<>>
    /\ __inIteration__ = 0 /\ __errorFlags__ = {} /\ lastErrorCode = "OK"
    /\ semOwner = NoTask /\ semCount = 0
    /\ iter = [t \in Tasks |-> <<>>]
    /\ pc = [t \in Tasks |-> "idle"]
    /\ local = [t \in Tasks |-> <<>>]
    /\ last = NoCall /\ allOk = TRUE /\ atClose = NoSnapshot /\ amap = <<>>
    /\ faults = 0 /\ errs = 0 /\ incs = [t \in Tasks |-> 0] /\ fatal = FALSE

NextScan == DoLoadData("t1")

SpecScan == InitScan /\ [][NextScan]_vars

----------------------------------------------------------------------------
\* The block structure that the in-memory state describes

\* the signed 16-bit tag stored at offset off of file d (0 where the file has
\* no two bytes there)
TagOf(d, off) ==
    IF off >= 0 /\ off + SizeofInt16 <= Len(d) THEN I16(FromLE(Bytes(d, off, SizeofInt16))) ELSE 0
TagAt(off) == TagOf(disk, off)

\* <<offset, size>> of the blocks of the key index (their size is their tag)
\* and of the free-block registry
IndexBlocks == {<<kvp[k], TagAt(kvp[k])>> : k \in DOMAIN kvp}
RegistryBlocks ==
    {<<__freeBlocksList__[i].blockOffset, __freeBlocksList__[i].blockSize>> :
        i \in 1..Len(__freeBlocksList__)}

\* the blocks lie end to end from pos to the recorded file size
RECURSIVE Tiled(_, _)
Tiled(blocks, pos) ==
    IF blocks = {} THEN pos = __dataFileSize__
    ELSE \E b \in blocks : b[1] = pos /\ b[2] > 0 /\ Tiled(blocks \ {b}, pos + b[2])

Partition ==
    /\ \A i \in 1..Len(__freeBlocksList__) : __freeBlocksList__[i].blockSize > 0
    /\ Cardinality({b[1] : b \in IndexBlocks \cup RegistryBlocks})
           = Cardinality(DOMAIN kvp) + Len(__freeBlocksList__)
    /\ Tiled(IndexBlocks \cup RegistryBlocks, 0)

\* C1: after any sequence of Insert/Update/Upsert/Delete/Truncate calls that
\* each returned success, the blocks of the key index and of the free-block
\* registry partition [0, recorded file size): distinct offsets, each block
\* starting where the previous one ends, every registry entry of positive size.
C1_PartitionAfterSuccess == (allOk /\ __dataFile__) => Partition

\* the key stored in the block at offset off of file d
StoredKey(d, off) ==
    IF keyIsString THEN ReadString(d, off + SizeofInt16).str
    ELSE IF off >= 0 /\ off + SizeofInt16 + SizeofFixed <= Len(d)
    THEN FromLE(Bytes(d, off + SizeofInt16, SizeofFixed))
    ELSE NoKey

TagsAgree ==
    /\ \A k \in DOMAIN kvp : TagAt(kvp[k]) > 0 /\ StoredKey(disk, kvp[k]) = k
    /\ \A i \in 1..Len(__freeBlocksList__) :
           TagAt(__freeBlocksList__[i].blockOffset) = -__freeBlocksList__[i].blockSize

\* C2: whenever no call is in flight and the data file is open, the tag on disk
\* at the offset of every key of the index is positive and the key stored in
\* that block is that key, and the tag on disk at the offset of every entry of
\* the free-block registry is the negative of the entry's size.
C2_TagConsistency == __dataFile__ => TagsAgree

\* what FindValue (key, &value) and FindBlockOffset (key, blockOffset) return now
ReadsBack(key) ==
    LET found == FindValue(Cur, key, <<>>, -1, Quiet)
        where == FindBlockOffset(Cur, key)
    IN  IF key \in DOMAIN amap
        THEN /\ found.ret = "OK" /\ found.out = <<amap[key]>>
             /\ where.ret = "OK" /\ TagAt(where.out[1]) > 0
        ELSE found.ret = "NOT_FOUND"

\* C3: after any sequence of successful Insert/Update/Upsert/Delete/Truncate
\* calls FindValue (k) without a block offset returns success and the value
\* last written for k if k was inserted and not deleted since (and
\* FindBlockOffset (k) an offset whose tag on disk is positive), and not-found
\* otherwise.
C3_ReadYourWrites == (allOk /\ __dataFile__) => \A key \in Keys : ReadsBack(key)

\* A call of Update (key, newValue) or of its callback form has just returned
\* success, the key's block being at offset old before the call
Updated(key, old) ==
    /\ last'.op \in {"Update", "UpdateCallback"}
    /\ last'.ret = "OK"
    /\ last'.key = key
    /\ __dataFile__
    /\ key \in DOMAIN kvp /\ kvp[key] = old
    /\ key \in DOMAIN amap'
\* the encoded size of the data written by that call: tag + key + new value
NewDataSize(key) == DataSize(key, amap'[key])
\* the bytes of the value in the block at offset old
ValueRange(key, old) ==
    (old + SizeofInt16 + Len(KeyBytes(key)) + 1)..(old + NewDataSize(key))

InPlaceFrame(key, old) ==
    /\ FindBlockOffset([Cur EXCEPT !.kvp = kvp'], key) = FindBlockOffset(Cur, key)
    /\ TagOf(disk', old) = TagAt(old)
    /\ __freeBlocksList__' = __freeBlocksList__
    /\ __dataFileSize__' = __dataFileSize__
    /\ Len(disk') >= Len(disk)
    /\ \A i \in 1..Len(disk') :
           i \notin ValueRange(key, old) => i <= Len(disk) /\ disk'[i] = disk[i]

\* C9: if the encoded size of the new data (tag + key + new value) is at most
\* the size of the key's block, a successful Update (k, newValue) leaves
\* FindBlockOffset (k), the tag of the block, the free-block registry and the
\* recorded file size as they were, and changes no byte of the file outside
\* the value bytes of that block.
C9_InPlaceUpdateKeepsBlock ==
    [][\A key \in Keys, old \in 0..MaxFileSizeReopen :
          (Updated(key, old) /\ NewDataSize(key) <= TagAt(old)) => InPlaceFrame(key, old)]_vars

\* an in-place update has just written a value that leaves part of its block unused
C9_Witness ==
    /\ last.op = "Update" /\ last.ret = "OK" /\ last.effect = "in place"
    /\ last.key \in DOMAIN kvp
    /\ DataSize(last.key, amap[last.key]) < TagAt(kvp[last.key])

RelocationFrame(key, old) ==
    /\ key \in DOMAIN kvp' /\ kvp'[key] # old
    /\ TagAt(old) > 0
    /\ \E i \in 1..Len(__freeBlocksList__') :
           __freeBlocksList__'[i] = [blockOffset |-> old, blockSize |-> TagAt(old)]
    /\ TagOf(disk', old) = -TagAt(old)

\* C10: if the new data does not fit the key's block, after a successful
\* Update (k, newValue) the key index maps k to a new offset different from the
\* old one, the free-block registry holds the entry (old offset, old block
\* size) with the old block's positive size, and the tag on disk at the old
\* offset is the negative of the old size.
C10_RelocationFreesOldBlock ==
    [][\A key \in Keys, old \in 0..MaxFileSizeReopen :
          (Updated(key, old) /\ last'.hint = "none" /\ TagAt(old) > 0
           /\ NewDataSize(key) > TagAt(old)) => RelocationFrame(key, old)]_vars

\* an instance was destroyed with its file open and the next one has just
\* loaded the same file
Reopened == last.op = "destroy" /\ atClose.valid /\ last'.op = "loadData"

\* the entries of a vector as a multiset
BagOfSeq(seq) ==
    [e \in {seq[i] : i \in 1..Len(seq)} |-> Cardinality({i \in 1..Len(seq) : seq[i] = e})]

\* C4: Open; any sequence of calls; Close; Open on the same file: the key
\* index and the free-block registry that are rebuilt are equal, as multisets of
\* (key, offset) and of (offset, size) pairs, to those in memory immediately
\* before Close.
C4_ReopenIdempotence ==
    [][Reopened => /\ kvp' = atClose.kvp
                   /\ BagOfSeq(__freeBlocksList__') = BagOfSeq(atClose.free)]_vars

\* C5: after Close and Open on the same file FindValue (k) returns, for every
\* key k present before Close, the value it returned immediately before Close,
\* and Size () is what it was.
C5_DurabilityAcrossReopen ==
    [][Reopened =>
          /\ \A k \in DOMAIN atClose.kvp :
                LET found == FindValue(Cur', k, <<>>, -1, NoFault)
                IN  <<found.ret, found.out>> = atClose.found[k]
          /\ Cardinality(DOMAIN kvp') = Cardinality(DOMAIN atClose.kvp)]_vars

\* C7: while at least one iterator on the instance is live, every call of
\* Insert, Delete, Truncate or loadData (Open) returns wrong-state and leaves
\* the key index, the free-block registry, the recorded file size and the data
\* file unchanged.
C7_RejectedWhileIterating ==
    [][(__inIteration__ > 0 /\ last'.op \in {"Insert", "Delete", "Truncate", "loadData"}) =>
          /\ last'.ret \in WrongState
          /\ kvp' = kvp
          /\ __freeBlocksList__' = __freeBlocksList__
          /\ __dataFileSize__' = __dataFileSize__
          /\ disk' = disk /\ fileExists' = fileExists]_vars

\* task t has just called op inside its iteration with the pair its iterator
\* stands at, and the environment did not fail
CalledAtCursor(t, op) ==
    /\ Iterating(t) /\ __dataFile__
    /\ IterKey(t) \in DOMAIN kvp
    /\ last'.op = op /\ last'.key = IterKey(t)
    /\ faults' = faults

\* C8: inside a live iteration the iterating task can call FindValue (key,
\* &value, blockOffset) and Update (key, value or callback, &blockOffset) with
\* the pair of the current step: the calls do not wait for the lock that the
\* iterator holds, they return success unless the file system fails, and
\* FindValue returns the updated value afterwards.
C8_PermittedWhileIterating ==
    [][\A t \in Tasks :
          /\ Iterating(t) => CanTake(t)
          /\ (CalledAtCursor(t, "FindValue") /\ last'.hint = "var") => last'.ret = "OK"
          /\ \A op \in {"Update", "UpdateCallback"} :
                (CalledAtCursor(t, op) /\ last'.hint = "node") =>
                    /\ last'.ret = "OK"
                    /\ IterKey(t) \in DOMAIN kvp' \cap DOMAIN amap'
                    /\ LET found == FindValue(Cur', IterKey(t), <<>>, kvp'[IterKey(t)], Quiet)
                       IN  found.ret = "OK" /\ found.out = <<amap'[IterKey(t)]>>]_vars

\* what FindValue (CounterKey, &value) delivers now
CounterValue == FindValue(Cur, CounterKey, 0, -1, Quiet).out[1]
AllIdle == \A t \in Tasks : pc[t] = "idle"

\* C6: when the tasks each increment the same numeric key M times through the
\* callback form of Update, all calls returning success, the value that
\* FindValue reads at the end is the initial value plus (number of tasks) * M,
\* in every interleaving; between the calls it is the initial value plus the
\* number of calls that have returned.
C6_NoLostUpdates ==
    (AllIdle /\ CounterKey \in DOMAIN kvp) =>
        /\ FindValue(Cur, CounterKey, 0, -1, Quiet).ret = "OK"
        /\ CounterValue = amap[CounterKey] + incs["t1"] + incs["t2"]

\* every task has done its MaxIncrements increments
C6_Witness ==
    /\ AllIdle /\ \A t \in Tasks : incs[t] = MaxIncrements
    /\ CounterKey \in DOMAIN kvp
    /\ CounterValue = amap[CounterKey] + Cardinality(Tasks) * MaxIncrements

\* the entries of a registry that hold d bytes with the least waste
BestFits(list, d) ==
    {i \in DOMAIN list :
        /\ list[i].blockSize >= d
        /\ \A j \in DOMAIN list :
               list[j].blockSize >= d => list[i].blockSize <= list[j].blockSize}

\* where a block for d bytes goes: a best-fitting entry of the registry, the
\* recorded end of the file if no entry fits
BestFitOffsets(d) ==
    IF BestFits(__freeBlocksList__, d) = {} THEN {__dataFileSize__}
    ELSE {__freeBlocksList__[i].blockOffset : i \in BestFits(__freeBlocksList__, d)}

\* a call that needs a block for key and value has just returned: an Insert of
\* a key that was not there, or an Update (without a block offset) whose new
\* data does not fit the key's block; the environment did not fail
NeedsBlock(key, value) ==
    /\ __dataFile__ /\ faults' = faults
    /\ last'.op \in {"Insert", "Update"}
    /\ last'.key = key /\ last'.value = value
    /\ \/ last'.op = "Insert" /\ key \notin DOMAIN kvp
       \/ /\ last'.op = "Update" /\ last'.hint = "none" /\ key \in DOMAIN kvp
          /\ TagAt(kvp[key]) > 0 /\ StoredKey(disk, kvp[key]) = key
          /\ DataSize(key, value) > TagAt(kvp[key])

\* C11: when Insert or a relocating Update needs dataSize d, the block it uses
\* is an entry of the free-block registry of size >= d with the least size
\* among these; it is a new block at the recorded end of the file only if no
\* entry has size >= d.
C11_BestFitAllocation ==
    [][\A key \in Keys, value \in Values :
          NeedsBlock(key, value) =>
              /\ last'.ret = "OK"
              /\ key \in DOMAIN kvp'
              /\ kvp'[key] \in BestFitOffsets(DataSize(key, value))]_vars

\* a successful Insert of key has just put its block where entry i of the
\* free-block registry was
ReusedEntry(key, i) ==
    /\ last'.op = "Insert" /\ last'.ret = "OK" /\ last'.key = key
    /\ __dataFile__ /\ key \notin DOMAIN kvp /\ key \in DOMAIN kvp'
    /\ i \in DOMAIN __freeBlocksList__
    /\ kvp'[key] = __freeBlocksList__[i].blockOffset

\* C12: when a successful Insert places its block in an entry of the
\* free-block registry, the recorded file size does not change, exactly that
\* entry leaves the registry (no entry for a remainder is added) and the tag of
\* the new block is the whole size of the reused block.
C12_ReuseWithoutSplit ==
    [][\A key \in Keys :
          (\E i \in DOMAIN __freeBlocksList__ : ReusedEntry(key, i)) =>
              /\ __dataFileSize__' = __dataFileSize__
              /\ \E i \in DOMAIN __freeBlocksList__ :
                     /\ ReusedEntry(key, i)
                     /\ __freeBlocksList__' = VectorErase(__freeBlocksList__, i)
                     /\ TagOf(disk', kvp'[key]) = __freeBlocksList__[i].blockSize]_vars

\* an Insert has just reused a free block that is larger than its data
C12_Witness ==
    /\ last.op = "Insert" /\ last.ret = "OK" /\ last.effect = "free list"
    /\ last.key \in DOMAIN kvp \cap DOMAIN amap
    /\ TagAt(kvp[last.key]) > DataSize(last.key, amap[last.key])

\* Upsert (key, newValue) or Upsert (key, updateCallback, defaultValue) has
\* just returned success
Upserted(key) ==
    /\ last'.op \in {"Upsert", "UpsertCallback"} /\ last'.ret = "OK" /\ last'.key = key
    /\ __dataFile__

\* the value that the Upsert that has just returned had to store for key:
\* last'.value is the value (the default value) passed
UpsertValue(key) ==
    IF last'.op = "UpsertCallback" /\ key \in DOMAIN kvp
    THEN updateCallback("append", FindValue(Cur, key, <<>>, -1, Quiet).out[1])
    ELSE last'.value

\* C13: Upsert (k, v) sets the value of k to v, Upsert (k, callback, default)
\* sets it to callback (old value) if k is in the key index and to default if
\* not; size () grows by one exactly when k was not in the index.
C13_Upsert ==
    [][\A key \in Keys :
          Upserted(key) =>
              /\ FindValue(Cur', key, <<>>, -1, Quiet).ret = "OK"
              /\ FindValue(Cur', key, <<>>, -1, Quiet).out = <<UpsertValue(key)>>
              /\ Cardinality(DOMAIN kvp') =
                    Cardinality(DOMAIN kvp) + (IF key \in DOMAIN kvp THEN 0 ELSE 1)]_vars

\* the callback form with default "y" was called for the keys 1, 2, 1 of an
\* empty database: it holds 1 -> "yy", 2 -> "y" and size () is 2
C13_Witness ==
    /\ last.op = "UpsertCallback" /\ last.ret = "OK" /\ last.key = 1
    /\ last.value = <<AppendedChar>>
    /\ DOMAIN kvp = {1, 2}
    /\ FindValue(Cur, 1, <<>>, -1, Quiet).out = <<(<<AppendedChar, AppendedChar>>)>>
    /\ FindValue(Cur, 2, <<>>, -1, Quiet).out = <<(<<AppendedChar>>)>>

\* Insert (key, value) has just returned, called with the file open for a key
\* that was in the key index
InsertedAgain(key) ==
    /\ last'.op = "Insert" /\ last'.key = key
    /\ __dataFile__ /\ key \in DOMAIN kvp

\* C14: Insert of a key that is in the key index fails with not-unique and
\* changes nothing: the key keeps its offset and its value, and the free-block
\* registry, the recorded file size and the content of the file are unchanged.
C14_InsertExistingKey ==
    [][\A key \in Keys :
          InsertedAgain(key) =>
              /\ last'.ret = "NOT_UNIQUE"
              /\ kvp' = kvp
              /\ FindValue(Cur', key, <<>>, -1, Quiet).ret = FindValue(Cur, key, <<>>, -1, Quiet).ret
              /\ FindValue(Cur', key, <<>>, -1, Quiet).out = FindValue(Cur, key, <<>>, -1, Quiet).out
              /\ __freeBlocksList__' = __freeBlocksList__
              /\ __dataFileSize__' = __dataFileSize__
              /\ disk' = disk]_vars

\* Insert has just refused a key whose value differs from the one passed
C14_Witness ==
    /\ last.op = "Insert" /\ last.ret = "NOT_UNIQUE"
    /\ __dataFile__ /\ last.key \in DOMAIN kvp
    /\ FindValue(Cur, last.key, <<>>, -1, Quiet).ret = "OK"
    /\ FindValue(Cur, last.key, <<>>, -1, Quiet).out # <<last.value>>

\* Delete (key) has just returned success for a key that was in the key index,
\* its block at offset old
Deleted(key, old) ==
    /\ last'.op = "Delete" /\ last'.ret = "OK" /\ last'.key = key
    /\ __dataFile__ /\ key \in DOMAIN kvp /\ kvp[key] = old

DeletedAbsent(key) ==
    /\ last'.op = "Delete" /\ last'.key = key
    /\ __dataFile__ /\ key \notin DOMAIN kvp

\* C16: Delete (k) for a key k that is not in the key index returns not-found,
\* never success, and leaves the key index, the free-block registry and the
\* data file unchanged.
C16_DeleteAbsentKey ==
    [][\A key \in Keys :
          DeletedAbsent(key) =>
              /\ last'.ret = "NOT_FOUND"
              /\ kvp' = kvp
              /\ __freeBlocksList__' = __freeBlocksList__
              /\ __dataFileSize__' = __dataFileSize__
              /\ disk' = disk]_vars

\* C17: after a successful Truncate (no iterator live) size () is 0, the
\* recorded file size is 0, the free-block registry is empty, the data file is
\* open and empty, every FindValue returns not-found and the next Insert places
\* its block at offset 0.
C17_Truncate ==
    [][(last'.op = "Truncate" /\ last'.ret = "OK") =>
          /\ Cardinality(DOMAIN kvp') = 0
          /\ __dataFileSize__' = 0
          /\ __freeBlocksList__' = <<>>
          /\ __dataFile__' /\ fileExists' /\ disk' = <<>>
          /\ \A key \in Keys :
                /\ FindValue(Cur', key, <<>>, -1, Quiet).ret = "NOT_FOUND"
                /\ \A value \in Values :
                      /\ Insert(Cur', key, value, Quiet).ret = "OK"
                      /\ FindBlockOffset(Insert(Cur', key, value, Quiet).s, key).out = <<0>>]_vars

\* Truncate has just emptied a file that held blocks
C17_Witness ==
    /\ last.op = "Truncate" /\ last.ret = "OK" /\ last.effect = "resized"
    /\ __dataFile__ /\ __dataFileSize__ = 0 /\ amap = <<>>

\* the pair that the iterator task t got last stands at after a step: its key
\* (NoKey at the end) and the block offset read through the pointer it yields
YieldedKey(t) == AtKey(kvp', iter'[t][Len(iter'[t])])
YieldedOffset(t) ==
    Pointee(Cur', YieldedKey(t), [kind |-> "node", key |-> YieldedKey(t)])

\* the pair that a step has to yield when the keys in S are left to visit
YieldsLeast(t, S) ==
    IF S = {} THEN YieldedKey(t) = NoKey
    ELSE /\ YieldedKey(t) \in S /\ \A k \in S : YieldedKey(t) <= k
         /\ FindBlockOffset(Cur', YieldedKey(t)).out = <<YieldedOffset(t)>>

\* C18: iterating from begin () yields every key of the key index exactly once
\* in ascending order of the keys, each with the block offset that
\* FindBlockOffset returns for it: begin () stands at the least key, every ++
\* goes to the least key above the one it stood at, and the end is reached
\* only when no key is left.
C18_OrderedIteration ==
    [][\A t \in Tasks :
          /\ (last'.op = "begin" /\ Len(iter'[t]) > Len(iter[t])) =>
                 YieldsLeast(t, DOMAIN kvp')
          /\ (last'.op = "++" /\ iter'[t] # iter[t]) =>
                 YieldsLeast(t, {k \in DOMAIN kvp' : k > IterKey(t)})]_vars

\* an iteration over two keys has just reached the end
C18_Witness ==
    /\ last.op = "++" /\ Iterating("t1")
    /\ Cardinality(DOMAIN kvp) = 2
    /\ IterKey("t1") = NoKey

\* FindValue (key, &value, blockOffset) or Update (key, newValue, &blockOffset)
\* has just returned, called with the file open, and off is the block offset
\* it used: the one passed, or for the Update of the 2023 revision, which
\* ignores the one passed, the one of the key index
UsedOffset(key, off) ==
    /\ last'.op \in {"FindValue", "Update"} /\ last'.hint = "var" /\ last'.key = key
    /\ __dataFile__ /\ faults' = faults
    /\ IF last'.op = "Update" /\ revision = "2023"
       THEN key \in DOMAIN kvp /\ off = kvp[key]
       ELSE off = last'.offset

\* the block at offset off is in use and holds key
HoldsKey(key, off) == TagAt(off) > 0 /\ StoredKey(disk, off) = key

\* the block at offset off is free or holds another key
FreeOrOtherKey(key, off) ==
    \/ TagAt(off) < 0
    \/ TagAt(off) > 0 /\ StoredKey(disk, off) \in Keys \ {key}

\* C19: FindValue (k, hintOff) and Update (k, v, hintOff) return success only
\* if the block at the offset used has a tag > 0 and its stored key is k; if
\* the block is free or holds a different key they return data-changed,
\* FindValue does not report success with the value of another key, and Update
\* writes nothing.
C19_OffsetValidation ==
    [][\A key \in Keys, off \in 0..MaxFileSizeErrors :
          UsedOffset(key, off) =>
              /\ last'.ret = "OK" => HoldsKey(key, off)
              /\ FreeOrOtherKey(key, off) =>
                    /\ last'.ret = "DATA_CHANGED"
                    /\ disk' = disk /\ kvp' = kvp
                    /\ __freeBlocksList__' = __freeBlocksList__
                    /\ __dataFileSize__' = __dataFileSize__]_vars

\* Update has just refused the offset of a block that holds another key
C19_Witness ==
    /\ last.op = "Update" /\ last.hint = "var" /\ last.ret = "DATA_CHANGED"
    /\ revision = "2024" /\ __dataFile__
    /\ TagAt(last.offset) > 0 /\ StoredKey(disk, last.offset) \in Keys \ {last.key}

\* C20: in the 2024 revision every call that returns an error status leaves the
\* bit of that status in __errorFlags__, no call but clearErrorFlags () takes
\* a bit out of __errorFlags__, and clearErrorFlags () leaves it empty.
C20_StickyErrorFlags ==
    [][IF last'.op = "clearErrorFlags"
       THEN __errorFlags__' = {}
       ELSE /\ __errorFlags__ \subseteq __errorFlags__'
            /\ last'.ret # "OK" => last'.ret \in __errorFlags__']_vars

\* the data file, its recorded size, the key index and the free-block registry
\* are after the call what they were before it
SameInstance ==
    /\ disk' = disk
    /\ fileExists' = fileExists
    /\ __dataFile__' = __dataFile__
    /\ __dataFileSize__' = __dataFileSize__
    /\ kvp' = kvp
    /\ __freeBlocksList__' = __freeBlocksList__

\* C21: once a call has closed the data file because its roll-back failed, every
\* call of Insert, FindBlockOffset, FindValue, Update, Upsert, Delete and
\* Truncate made before the next loadData returns FILE_IO_ERROR and leaves the
\* file, the key index, the free-block registry and the recorded size alone.
C21_FatalPath ==
    [][(fatal /\ last'.op \in {"Insert", "FindBlockOffset", "FindValue", "Update", "Upsert",
                                "Delete", "Truncate"})
          => (last'.ret = "FILE_IO_ERROR" /\ SameInstance)]_vars

\* C22: loadData on an instance whose data file is open returns
\* CANT_DO_IT_NOW and leaves the file, the key index, the free-block registry
\* and the recorded file size as they were.
C22_OpenWhenBound ==
    [][(__dataFile__ /\ last'.op = "loadData")
          => (last'.ret = "CANT_DO_IT_NOW" /\ SameInstance)]_vars

\* task t is between its Lock () and its Unlock ()
InBracket(t) == pc[t] \in {"locked", "found", "unlock"}

\* C23: while a task is between its Lock () and its Unlock (), no step of
\* another task changes the file or the instance; its FindValue and its Update
\* get the semaphore that it holds already; and its Update finds the value that
\* its FindValue read and leaves f of that value.
C23_ComposedAtomicity ==
    [][\A t \in Tasks :
          /\ InBracket(t) => semOwner = t /\ CanTake(t)
          /\ InBracket(t) =>
                \A u \in Tasks \ {t} : pc'[u] # pc[u] => (SameInstance /\ semOwner' = t)
          /\ (pc[t] = "found" /\ pc'[t] = "unlock") =>
                /\ CounterValue = local[t]
                /\ CounterValue' = updateCallback("increment", local[t])]_vars

\* a task is through its bracket and has left the value it read plus one, while
\* another task waits with an Update of its own
C23_Witness ==
    /\ \E t \in Tasks : pc[t] = "unlock" /\ CounterValue = local[t] + 1
    /\ \E u \in Tasks : pc[u] = "plain"

\* C24: after any sequence of calls that all returned OK, the recorded file
\* size (what dataFileSize () returns, the offset of the next appended block)
\* is the length of the data file.
C24_FileSizeIsLength == (allOk /\ __dataFile__) => __dataFileSize__ = Len(disk)

\* the largest block size that a signed 16-bit tag can hold
MaxTag == 32767

\* Insert (key, value) or an Update (key, value) that needs a new block has
\* just returned
Allocating(key) ==
    /\ last'.key = key
    /\ __dataFile__ /\ __inIteration__ = 0
    /\ \/ last'.op = "Insert" /\ key \notin DOMAIN kvp
       \/ /\ last'.op = "Update" /\ key \in DOMAIN kvp
          /\ TagAt(kvp[key]) > 0
          /\ DataSize(key, last'.value) > TagAt(kvp[key])

\* C25: Insert and a relocating Update return BAD_ALLOC whenever the block size
\* they compute exceeds 32,767, and the tag of the block they write, read back
\* as a signed 16-bit integer, is in 3..32,767.
C25_BlockSizeLimit ==
    [][\A key \in Keys :
          Allocating(key) =>
              /\ BlockSize(key, last'.value) > MaxTag => last'.ret = "BAD_ALLOC"
              /\ last'.ret = "OK" =>
                    /\ key \in DOMAIN kvp'
                    /\ TagOf(disk', kvp'[key]) \in 3..MaxTag]_vars

\* the block that Insert (key, value) writes to: the best fitting free block,
\* or a new one at the end of the file
InsertTarget(key, value) ==
    LET i == FindFreeBlock(__freeBlocksList__, DataSize(key, value))
    IN  IF i = 0 THEN [blockOffset |-> __dataFileSize__, blockSize |-> BlockSize(key, value)]
        ELSE __freeBlocksList__[i]

\* Insert (key, value) of a key that is not in the index has just returned
\* BAD_ALLOC or FILE_IO_ERROR and has left the file open
InsertFailed(key) ==
    /\ last'.op = "Insert" /\ last'.key = key
    /\ last'.ret \in {"BAD_ALLOC", "FILE_IO_ERROR"}
    /\ __dataFile__ /\ __dataFile__'
    /\ key \notin DOMAIN kvp

\* C26: when Insert (k, v) returns BAD_ALLOC or FILE_IO_ERROR and the data file
\* is still open, k is not in the key index, the key index, the free-block
\* registry and the recorded file size are what they were before the call, and
\* if the file was written to, the tag at the offset of the block is
\* -blockSize.
C26_InsertFailureAtomicity ==
    [][\A key \in Keys :
          InsertFailed(key) =>
              /\ key \notin DOMAIN kvp'
              /\ kvp' = kvp
              /\ __freeBlocksList__' = __freeBlocksList__
              /\ __dataFileSize__' = __dataFileSize__
              /\ disk' # disk =>
                    TagOf(disk', InsertTarget(key, last'.value).blockOffset)
                        = 0 - InsertTarget(key, last'.value).blockSize]_vars

\* the ways the seek or the write of Delete, step 4, can fail
TagFaults == {f \in FreeFaults : ~f.freeSeek \/ f.freeWrite # -1}

\* Delete (key) has just run up to its step 4, where the environment followed
\* plan f
DeleteFailedAtTag(key, f) ==
    /\ last'.op = "Delete" /\ last'.key = key
    /\ __dataFile__ /\ key \in DOMAIN kvp
    /\ TagOf(disk, kvp[key]) > 0
    /\ Cur' = Delete(Cur, key, f).s

\* C27: when the seek or the write of the tag that marks the block free
\* fails, Delete (k) returns FILE_IO_ERROR and afterwards either k is in the
\* key index at its original offset with the free-block registry unchanged,
\* or the data file is closed.
C27_DeleteRollBack ==
    [][\A key \in Keys, f \in TagFaults :
          DeleteFailedAtTag(key, f) =>
              /\ last'.ret = "FILE_IO_ERROR"
              /\ \/ /\ __dataFile__'
                    /\ kvp' = kvp
                    /\ __freeBlocksList__' = __freeBlocksList__
                 \/ ~__dataFile__']_vars
\* Delete has failed after one byte of the tag was written, the key is back
C27_Witness ==
    /\ last.op = "Delete" /\ last.ret = "FILE_IO_ERROR"
    /\ __dataFile__ /\ last.key \in DOMAIN kvp
    /\ TagOf(disk, kvp[last.key]) > MaxFileSizeFaults
\* Delete has failed at the tag and could not put the key back
C27_WitnessClosed ==
    /\ last.op = "Delete" /\ last.ret = "FILE_IO_ERROR"
    /\ fatal /\ ~__dataFile__ /\ last.key \notin DOMAIN kvp


\* the location Update (key, newValue) writes a new block to: the best fitting
\* free block, or the end of the file
UpdateTarget(key, newValue) ==
    LET i == FindFreeBlock(__freeBlocksList__, DataSize(key, newValue))
    IN  IF i = 0 THEN __dataFileSize__ ELSE __freeBlocksList__[i].blockOffset

\* Update (key, newValue) has just failed to write a new block under plan f and
\* has left the data file open
UpdateFailedAtWrite(key, newValue, hint, f) ==
    /\ last'.op = "Update" /\ faults' # faults
    /\ __dataFile__ /\ __dataFile__'
    /\ key \in DOMAIN kvp
    /\ disk' # disk
    /\ Update(Cur, key, newValue, hint, f) # Update(Cur, key, newValue, hint, Plain(f))
    /\ Cur' = Update(Cur, key, newValue, hint, f).s

\* C28: when the write of the new block of a relocating Update (k, newValue)
\* fails and the data file is still open, Update returns FILE_IO_ERROR, the
\* key index still maps k to the old offset, the free-block registry and the
\* recorded file size are unchanged, the tag at the target location is
\* negative, and FindValue (k) delivers what it delivered before.
C28_FailedRelocatingUpdate ==
    [][\A key \in Keys, newValue \in Values, f \in BlockWriteFaults :
          \A hint \in Hints("t1", key) :
              UpdateFailedAtWrite(key, newValue, hint, f) =>
                  /\ last'.ret = "FILE_IO_ERROR"
                  /\ kvp' = kvp
                  /\ __freeBlocksList__' = __freeBlocksList__
                  /\ __dataFileSize__' = __dataFileSize__
                  /\ TagOf(disk', UpdateTarget(key, newValue)) < 0
                  /\ FindValue(Cur', key, <<>>, -1, NoFault).ret
                        = FindValue(Cur, key, <<>>, -1, NoFault).ret
                  /\ FindValue(Cur', key, <<>>, -1, NoFault).out
                        = FindValue(Cur, key, <<>>, -1, NoFault).out
                  /\ (allOk /\ key \in DOMAIN amap) =>
                        FindValue(Cur', key, <<>>, -1, NoFault).out = <<amap[key]>>]_vars
\* a relocating Update has failed, its roll-back has left a free tag behind
\* and the file open
C28_Witness ==
    /\ last.op = "Update" /\ last.ret = "FILE_IO_ERROR"
    /\ __dataFile__ /\ faults = 1
    /\ \E off \in 0..MaxFileSizeRelocate :
          /\ TagOf(disk, off) < 0
          /\ \A i \in DOMAIN __freeBlocksList__ : __freeBlocksList__[i].blockOffset # off
          /\ off >= __dataFileSize__
\* the same where the new block was to go to a free block
C28_WitnessFreeBlock ==
    /\ last.op = "Update" /\ last.ret = "FILE_IO_ERROR"
    /\ __dataFile__ /\ faults = 1
    /\ \E i \in DOMAIN __freeBlocksList__ :
          /\ TagOf(disk, __freeBlocksList__[i].blockOffset) < 0
          /\ Bytes(disk, __freeBlocksList__[i].blockOffset + SizeofInt16, SizeofInt16)
                = <<255, 255>>

\* Update (key, newValue, pBlockOffset) has just returned OK and has moved the
\* value to another block
UpdateRelocated(key) ==
    /\ last'.op = "Update" /\ last'.key = key /\ last'.ret = "OK"
    /\ last'.effect \in {"resized", "free list"}
    /\ key \in DOMAIN amap'

\* C29: after an Update (k, newValue, pBlockOffset) that returned OK and moved
\* the value to a new block, FindBlockOffset (k) delivers the offset of the
\* new block and FindValue (k) delivers newValue, whether pBlockOffset was
\* left out, is the blockOffset of the pair of the current iterator step, or
\* is a variable filled by FindBlockOffset (k).
C29_RelocatingUpdateWithHint ==
    [][\A key \in Keys :
          UpdateRelocated(key) =>
              /\ FindBlockOffset(Cur', key).ret = "OK"
              /\ FindBlockOffset(Cur', key).out = <<UpdateTarget(key, amap'[key])>>
              /\ FindValue(Cur', key, <<>>, -1, NoFault).ret = "OK"
              /\ FindValue(Cur', key, <<>>, -1, NoFault).out = <<amap'[key]>>]_vars

\* loadData has just run, without a failure of the environment, on an instance
\* whose data file a failed roll-back or a failed loadData had closed, and the
\* file is one that a new instance loads
Recovering ==
    /\ ~__dataFile__
    /\ fatal \/ (last.op = "loadData" /\ last.ret # "OK")
    /\ last'.op = "loadData" /\ faults' = faults
    /\ loadData(Constructed(Cur), NoFault).ret = "OK"

\* C30: after a failed roll-back has closed the data file, or after a failed
\* loadData, loadData of the same file on the same instance returns OK when
\* the file is readable and well formed, and the key index and the free-block
\* registry are then those of the blocks in the file, with nothing left over
\* from before.
C30_RecoveryByOpen ==
    [][Recovering =>
          /\ last'.ret = "OK"
          /\ kvp' = loadData(Constructed(Cur), NoFault).s.kvp
          /\ __freeBlocksList__' = loadData(Constructed(Cur), NoFault).s.free]_vars

\* loadData has just scanned the file under plan f and a block could not be read
ScanFailed(f) ==
    /\ last'.op = "loadData"
    /\ f.open = "ok"
    /\ revision = "2024" => ~__dataFile__
    /\ Cur' = loadData(Cur, f).s
    /\ readBlockFails(scanStart(Cur), 0, f)

\* C31: when reading a block fails while loadData scans the file, loadData
\* returns FILE_IO_ERROR and leaves the data file open.
C31_OpenScanFailure ==
    [][\A f \in LoadPlans :
          ScanFailed(f) => (last'.ret = "FILE_IO_ERROR" /\ __dataFile__')]_vars

\* C32: a task reads or writes the data file handle, the key index, the
\* free-block registry, the error flags, the recorded file size and the
\* in-iteration counter only while it holds the semaphore of the instance; the
\* test of the data file handle at the start of a call is such a read.
C32_LockDiscipline ==
    [][\A t \in Tasks :
          /\ (pc[t] = "idle" /\ pc'[t] = "Lock") => semOwner = t
          /\ (pc[t] \in {"FindValue", "Update"} /\ pc'[t] # pc[t]) => semOwner = t]_vars

\* loadData has not been called on the instance
NeverOpened == ~__dataFile__ /\ __dataFileName__ = ""

\* C33: Insert, FindValue, Update, Upsert and Delete on an instance whose data
\* file was never opened return the status of a call that the state does not
\* allow (CANT_DO_IT_NOW, NOT_WHILE_ITERATING in the 2023 revision) and leave
\* the file, the key index, the free-block registry and the recorded file size
\* as they were.
C33_UnopenedStore ==
    [][(NeverOpened /\ last'.op \in {"Insert", "FindValue", "Update", "Upsert", "Delete"})
          => (last'.ret \in WrongState /\ SameInstance)]_vars

\* C34: every public member function gives the semaphore back, on every
\* return path, as many times as it took it: whenever a task is not inside a
\* call, it holds the semaphore once for every live iterator it has made and
\* once for every Lock () of its own that has no Unlock () yet, and no more;
\* inside a call it holds at least that
C34_LockBalance ==
    \A t \in Tasks :
        /\ ~InCall(t) => Held(t) = LiveIterators(t) + CallerLocks(t)
        /\ Held(t) >= LiveIterators(t) + CallerLocks(t)

\* an Upsert that has called Update under its own Lock () has returned, and
\* nobody holds the semaphore
C34_Witness ==
    /\ last.op = "Upsert" /\ last.ret = "OK"
    /\ \A t \in Tasks : ~InCall(t)
    /\ semOwner = NoTask /\ semCount = 0

\* a Delete has failed after its Lock () inside an iteration of its task,
\* which still holds the semaphore once, for the iterator
C34_WitnessIterating ==
    /\ last.op = "Delete" /\ last.ret \in WrongState
    /\ \E t \in Tasks : ~InCall(t) /\ LiveIterators(t) = 1 /\ Held(t) = 1

\* the Lock () calls of the public member functions task t is inside
CallLocks(t) ==
    Cardinality({i \in DOMAIN local[t] :
                    local[t][i].op # "Lock" /\ local[t][i].at \in {"locked", "calls"}})

\* C36: __inIteration__ is never negative and is the number of live iterators
\* made by begin (), first_element () and last_element (); the iterators of
\* end () do not count; once they are all dropped the counter is 0 and no
\* task holds the semaphore on account of an iterator
C36_InIterationCounter ==
    /\ __inIteration__ >= 0
    /\ __inIteration__ = LiveIterators("t1") + LiveIterators("t2")
    /\ (\A t \in Tasks : LiveIterators(t) = 0) =>
          /\ __inIteration__ = 0
          /\ \A t \in Tasks : Held(t) = CallerLocks(t) + CallLocks(t)

\* the last live iterator has been dropped while an iterator of end () is
\* still there: the counter is 0 and the semaphore is free
C36_Witness ==
    /\ last.op = "~Iterator"
    /\ \E t \in Tasks : iter[t] = <<0>>
    /\ __inIteration__ = 0 /\ semOwner = NoTask

\* two iterators are live at once
C36_WitnessTwo == __inIteration__ = 2 /\ semCount = 2

\* C37: while a task has a live iterator, no Insert, Delete, Update or
\* Truncate of another task returns, and a wrong-state status on account of
\* the iteration is returned only to a task that has a live iterator itself
C37_IterationExcludesOthers ==
    [][\A t \in Tasks :
          (pc[t] = "call" /\ pc'[t] = "idle") =>
              /\ last'.op \in {"Insert", "Delete", "Update", "Truncate"} =>
                    \A o \in Tasks \ {t} : LiveIterators(o) = 0
              /\ (last'.op \in {"Insert", "Delete", "Truncate"} /\ last'.ret \in WrongState) =>
                    LiveIterators(t) > 0]_vars

C35_WitnessNested ==
    \E t \in Tasks :
        /\ LiveIterators(t) > 0 /\ Len(local[t]) >= 2
        /\ Top(t).op = "Update" /\ Top(t).at = "calls" /\ Held(t) = 3

\* C38: a call that returns OK leaves __errorFlags__ as it was (clearErrorFlags ()
\* apart), an Upsert that inserts a key that was not there included
C38_SuccessKeepsFlags ==
    [][(last'.ret = "OK" /\ last'.op # "clearErrorFlags") =>
           __errorFlags__' = __errorFlags__]_vars

\* C39: the String that a successful FindValue delivers depends on the
\* content of the store only: two calls for the same key on the same store
\* deliver the same value whatever the caller's value variable held before
C39_FindValueDeterminism ==
    [][(last'.op = "FindValue" /\ last'.ret = "OK") =>
          \A key \in Keys : \A p1, p2 \in scope.priors :
              LET a == FindValue(Cur, key, p1, -1, NoFault)
                  b == FindValue(Cur, key, p2, -1, NoFault)
              IN  (a.ret = "OK" /\ b.ret = "OK") => a.out = b.out]_vars

\* C40: loadData comes to an end on a data file of any content, a block size
\* of 0 and a block size that points past the end of the file included,
\* because blockOffset grows with every block the scan reads: whenever the
\* scan gets through the body of its loop, what it adds to blockOffset is
\* more than 0 (or, for the block size -32768, takes the 64-bit blockOffset
\* round to a value past every file)
C40_ScanAdvances ==
    [][(last'.op = "loadData" /\ (revision = "2024" => ~__dataFile__)) =>
          \A blockOffset \in scanned(scanStart(Cur), 0, NoFault) :
              LET step == scanStep(scanStart(Cur), blockOffset, NoFault)
              IN  step > 0 \/ blockOffset + step < 0]_vars

====
